---- MODULE Spec2Model ----
(***************************************************************************)
(* Model of internal/livereload/manager.go: the live-reload Manager, its   *)
(* per-project watch loop, the debounce timer, the broadcast to the SSE    *)
(* handlers and the ignore policy of the directory walk.                   *)
(*                                                                         *)
(* Conventions.                                                            *)
(*  - A path is the sequence of its segments: <<"p", "src">> is "/p/src",  *)
(*    <<>> is the empty string.  Segments hold no "/", so a substring      *)
(*    search for "/name/" in the path string is a search for the tokens    *)
(*    "/", name, "/" in the token sequence of the path (Tokens).           *)
(*  - A section of code run between m.mu.Lock() and m.mu.Unlock() is one   *)
(*    step; the unsynchronised statements around it are steps of their     *)
(*    own, so other goroutines interleave with them.                       *)
(*  - A panic that nothing recovers ends the process (crashed); a panic in *)
(*    an HTTP handler is recovered by net/http and ends that handler.      *)
(***************************************************************************)
EXTENDS Integers, Sequences, FiniteSets, TLC

----------------------------------------------------------------------------
(* Program constants *)

\* time.AfterFunc(250*time.Millisecond, trigger)
QuietWindowMs == 250

\* ch := make(chan struct{}, 10)
ChanCap == 10

----------------------------------------------------------------------------
(* Bounds of the model *)

\* API calls (Start, Stop, Enable, Disable) made in one run of Spec
MaxCalls == 3
\* HTTP requests served in one run of Spec
MaxConns == 2
\* filesystem events delivered in one run of Spec
MaxEvents == 1
\* trigger goroutines (fired timers) in one run of Spec
MaxTrigs == 1
\* API calls, requests and filesystem events together in one run of Spec
MaxActs == 4
\* milliseconds one Tick of the clock advances in Spec
TickMs == 250
\* fragments in the content of an entry file of SpecInject
MaxLen == 3
\* TryInjectScript calls in one run of SpecInject
MaxRuns == 2

----------------------------------------------------------------------------
(* Paths and the ignore policy *)

ProjectIDs == {"a", "b"}

\* strings.ToLower on one segment of a path or one fragment of a file: the
\* ones of the model that hold upper-case letters, and what they lower to
Lower(n) ==
  CASE n = ".GIT" -> ".git"
    [] n = "Vendor" -> "vendor"
    [] n = "</BODY>" -> "</body>"
    [] n = "<!DOCTYPE" -> "<!doctype"
    [] n = ".PHP" -> ".php"
    [] OTHER -> n

\* the string of a path as tokens: "/" before every segment
RECURSIVE Tokens(_)
Tokens(path) ==
  IF path = <<>> THEN <<>>
  ELSE Tokens(SubSeq(path, 1, Len(path) - 1)) \o <<"/", path[Len(path)]>>

ToLower(toks) == [i \in 1..Len(toks) |-> Lower(toks[i])]

\* strings.Contains
Contains(s, sub) ==
  \E i \in 0..(Len(s) - Len(sub)) : SubSeq(s, i + 1, i + Len(sub)) = sub

\* the list of isIgnoredPath, each entry "/name/"
ignored ==
  << <<"/", ".git", "/">>, <<"/", "node_modules", "/">>, <<"/", "vendor", "/">>,
     <<"/", ".idea", "/">>, <<"/", ".vscode", "/">>, <<"/", "storage", "/">>,
     <<"/", "dist", "/">>, <<"/", "bin", "/">> >>

isIgnoredPath(path) ==
  LET p == ToLower(Tokens(path))
  IN  \E k \in 1..Len(ignored) : Contains(p, ignored[k])

\* the directories of fs directly below path
Children(path, fs) ==
  {d \in fs : Len(d) = Len(path) + 1 /\ SubSeq(d, 1, Len(path)) = path}

\* filepath.WalkDir(root, fn) with the fn of addWatchRecursive: the set of
\* directories handed to w.Add.  A root that does not exist (or is no
\* directory) is a walk error or a non-directory entry: nothing is added.
RECURSIVE addWatchRecursive(_, _)
addWatchRecursive(root, fs) ==
  IF root \notin fs THEN {}
  ELSE IF isIgnoredPath(root) THEN {}
  ELSE {root} \cup UNION {addWatchRecursive(c, fs) : c \in Children(root, fs)}

----------------------------------------------------------------------------
(* State *)

VARIABLES
  fs,        \* the directories that exist (a set of paths)
  srv,       \* m.srv: 0 is nil, i > 0 is the http.Server servers[i]
  servers,   \* the http.Servers made by Start, each "idle", "serving" or "shutdown"
  listeners, \* the goroutines of Start that call m.srv.ListenAndServe(): "ready" or "ran"
  projects,  \* m.projects: project id -> index into pst, 0 when absent
  pst,       \* the projectState objects, in order of allocation
  conn,      \* the handleEvents goroutines, in order of arrival
  trig,      \* the trigger goroutines started by fired timers
  call,      \* the API calls (Start, Stop, Enable, Disable), in order of invocation
  nev,       \* filesystem events delivered so far
  crashed,   \* TRUE once a panic outside an HTTP handler has ended the process
  cfg,       \* what the environment offers in this run (fixed by Init)
  disk,      \* the entry file of a project and its sibling .tmp file
  inj,       \* the TryInjectScript calls, in order of invocation
  mu,        \* m.mu: 0 when unlocked, else the task that holds it
  task       \* the tasks that use m.mu, each with the statements it has left

vars == <<fs, srv, servers, listeners, projects, pst, conn, trig, call, nev, crashed, cfg, disk, inj, mu, task>>

Nil == [ID |-> "", Path |-> <<>>, nil |-> TRUE]
Project(id, path) == [ID |-> id, Path |-> path, nil |-> FALSE]

NoEvent == [Name |-> <<>>, Op |-> {}]

\* fsnotify.Write|fsnotify.Create|fsnotify.Remove|fsnotify.Rename
Significant == {"Write", "Create", "Remove", "Rename"}

\* m.projects[id]: nil for an id the map does not hold
Lookup(id) == IF id \in DOMAIN projects THEN projects[id] ELSE 0

\* &projectState{watcher: watcher, clients: make(map[string]chan struct{})}
\* with the watches of the first walk; loop is "none" until go m.watchLoop.
\* bursts, fires, cancels and age are history: debounced() calls that found
\* no pending timer, timers that fired, pending timers stopped by Disable,
\* and the milliseconds since the last debounced() (capped at the window);
\* got holds the paths of the events the loop has received.
NewState(id, watches) ==
  [id |-> id, watcher |-> "open", watches |-> watches, clients |-> {},
   timer |-> "nil", rem |-> 0, loop |-> "none", ev |-> NoEvent,
   bursts |-> 0, fires |-> 0, cancels |-> 0, age |-> 0, firedAt |-> {}, got |-> {}]

States == 1..Len(pst)
Conns == 1..Len(conn)
Trigs == 1..Len(trig)
Calls == 1..Len(call)

Running == ~crashed

\* the places of a handleEvents goroutine that has not returned
Serving == {"register", "ready", "loop", "close"}

----------------------------------------------------------------------------
(* API calls.  A call record holds the operation, its arguments and its    *)
(* locals: p (Enable's project), id (Disable's projectID), st (the state   *)
(* Enable built or Disable took), seen (the clients Disable's range has    *)
(* visited), todo and srvl (Stop's copies of m.projects and m.srv), res    *)
(* (the returned error: "ok" is nil).  took, swapped and w are history:    *)
(* the states Disable removed, the states Stop's copy held, and what       *)
(* became of a watcher Enable opened and did not register.                 *)

NewCall(op) ==
  [op |-> op, pc |-> "new", p |-> Nil, id |-> "", st |-> 0, seen |-> {},
   todo |-> {}, srvl |-> 0, res |-> "", took |-> {}, swapped |-> {}, w |-> "none"]

\* the inputs the environment has made so far
Acts == Len(call) + Len(conn) + nev

CanCall == Running /\ Len(call) < cfg.calls /\ Acts < cfg.acts

\* the body of Start between Lock and Unlock: nothing when m.srv is set,
\* otherwise a new http.Server and a goroutine that will call
\* m.srv.ListenAndServe()
StartLocked ==
  IF srv # 0
  THEN UNCHANGED <<srv, servers, listeners>>
  ELSE /\ servers' = Append(servers, "idle")
       /\ listeners' = Append(listeners, "ready")
       /\ srv' = Len(servers) + 1

\* Manager.Start
Start ==
  /\ CanCall
  /\ "Start" \in cfg.ops
  /\ StartLocked
  /\ call' = Append(call, [NewCall("Start") EXCEPT !.pc = "done", !.res = "ok"])
  /\ UNCHANGED <<fs, projects, pst, conn, trig, nev, crashed, cfg, disk, inj, mu, task>>

\* the goroutine of Start: _ = m.srv.ListenAndServe().  It reads m.srv when
\* it runs: a nil m.srv is a nil dereference outside any handler; a server
\* already shut down returns ErrServerClosed; the port is bound unless
\* another server still holds it (the error is dropped).
ListenAndServe(i) ==
  /\ Running
  /\ listeners[i] = "ready"
  /\ listeners' = [listeners EXCEPT ![i] = "ran"]
  /\ IF srv = 0
     THEN crashed' = TRUE /\ UNCHANGED servers
     ELSE /\ UNCHANGED crashed
          /\ IF servers[srv] = "idle" /\ \A j \in 1..Len(servers) : servers[j] # "serving"
             THEN servers' = [servers EXCEPT ![srv] = "serving"]
             ELSE UNCHANGED servers
  /\ UNCHANGED <<fs, srv, projects, pst, conn, trig, call, nev, cfg, disk, inj, mu, task>>

\* Manager.Enable up to the end of m.Start(): a nil project is an error
\* before anything else
EnableBegin(p) ==
  /\ CanCall
  /\ p \in cfg.enable
  /\ IF p.nil
     THEN /\ call' = Append(call, [NewCall("Enable") EXCEPT !.p = p, !.pc = "done", !.res = "err"])
          /\ UNCHANGED <<srv, servers, listeners>>
     ELSE /\ call' = Append(call, [NewCall("Enable") EXCEPT !.p = p, !.pc = "check"])
          /\ StartLocked
  /\ UNCHANGED <<fs, projects, pst, conn, trig, nev, crashed, cfg, disk, inj, mu, task>>

\* EnableCheck as an Enable without the check for a tracked id
EnableCheckMissing(t, fail) ==
  /\ Running
  /\ call[t].op = "Enable" /\ call[t].pc = "check"
  /\ fail \in cfg.newWatcherFails
  /\ IF fail
     THEN /\ call' = [call EXCEPT ![t].pc = "done", ![t].res = "err"]
          /\ UNCHANGED pst
     ELSE IF call[t].p.Path = <<>>
     THEN /\ call' = [call EXCEPT ![t].pc = "done", ![t].res = "err", ![t].w = "closed"]
          /\ UNCHANGED pst
     ELSE /\ pst' = Append(pst, NewState(call[t].p.ID, addWatchRecursive(call[t].p.Path, fs)))
          /\ call' = [call EXCEPT ![t].pc = "register", ![t].st = Len(pst) + 1]
  /\ UNCHANGED <<fs, srv, servers, listeners, projects, conn, trig, nev, crashed, cfg, disk, inj, mu, task>>

\* EnableCheck as an Enable that returns the empty-path error without
\* closing the watcher it opened
EnableCheckLeaks(t, fail) ==
  /\ Running
  /\ call[t].op = "Enable" /\ call[t].pc = "check"
  /\ fail \in cfg.newWatcherFails
  /\ IF Lookup(call[t].p.ID) # 0
     THEN /\ call' = [call EXCEPT ![t].pc = "done", ![t].res = "ok"]
          /\ UNCHANGED pst
     ELSE IF fail
     THEN /\ call' = [call EXCEPT ![t].pc = "done", ![t].res = "err"]
          /\ UNCHANGED pst
     ELSE IF call[t].p.Path = <<>>
     THEN /\ call' = [call EXCEPT ![t].pc = "done", ![t].res = "err", ![t].w = "open"]
          /\ UNCHANGED pst
     ELSE /\ pst' = Append(pst, NewState(call[t].p.ID, addWatchRecursive(call[t].p.Path, fs)))
          /\ call' = [call EXCEPT ![t].pc = "register", ![t].st = Len(pst) + 1]
  /\ UNCHANGED <<fs, srv, servers, listeners, projects, conn, trig, nev, crashed, cfg, disk, inj, mu, task>>

\* Enable from the check under the lock to the end of the walk:
\* if _, ok := m.projects[p.ID]; ok { return nil }, then
\* fsnotify.NewWatcher() (fail: whether it fails), the projectState, the
\* empty-path check and addWatchRecursive.  What follows the check touches
\* nothing another goroutine can reach yet.
EnableCheck(t, fail) ==
  /\ Running
  /\ call[t].op = "Enable" /\ call[t].pc = "check"
  /\ fail \in cfg.newWatcherFails
  /\ IF Lookup(call[t].p.ID) # 0
     THEN /\ call' = [call EXCEPT ![t].pc = "done", ![t].res = "ok"]
          /\ UNCHANGED pst
     ELSE IF fail
     THEN /\ call' = [call EXCEPT ![t].pc = "done", ![t].res = "err"]
          /\ UNCHANGED pst
     ELSE IF call[t].p.Path = <<>>
     THEN /\ call' = [call EXCEPT ![t].pc = "done", ![t].res = "err", ![t].w = "closed"]
          /\ UNCHANGED pst
     ELSE /\ pst' = Append(pst, NewState(call[t].p.ID, addWatchRecursive(call[t].p.Path, fs)))
          /\ call' = [call EXCEPT ![t].pc = "register", ![t].st = Len(pst) + 1]
  /\ UNCHANGED <<fs, srv, servers, listeners, projects, conn, trig, nev, crashed, cfg, disk, inj, mu, task>>

\* Enable: m.projects[p.ID] = st under the lock, then go m.watchLoop(p.ID, st)
EnableRegister(t) ==
  /\ Running
  /\ call[t].op = "Enable" /\ call[t].pc = "register"
  /\ projects' = [projects EXCEPT ![call[t].p.ID] = call[t].st]
  /\ pst' = [pst EXCEPT ![call[t].st].loop = "select"]
  /\ call' = [call EXCEPT ![t].pc = "done", ![t].res = "ok"]
  /\ UNCHANGED <<fs, srv, servers, listeners, conn, trig, nev, crashed, cfg, disk, inj, mu, task>>

\* DisableTake as a Disable that takes the state of project "a" whatever
\* id it was called with
DisableTakeFirst(c, id) ==
  LET st == Lookup("a")
      back == IF c.op = "Stop" THEN "range" ELSE "done"
  IN  IF st = 0
      THEN [c EXCEPT !.id = id, !.st = 0, !.seen = {}, !.pc = back,
                     !.res = IF c.op = "Stop" THEN c.res ELSE "ok"]
      ELSE [c EXCEPT !.id = id, !.st = st, !.seen = {}, !.pc = "close",
                     !.took = c.took \cup {st}]

\* Disable between Lock and Unlock, as the call record c sees it:
\* st := m.projects[projectID]; delete(m.projects, projectID).
\* A nil st returns at once: to "done" for Disable itself, back to Stop's
\* range for the Disable that Stop calls.
DisableTake(c, id) ==
  LET st == Lookup(id)
      back == IF c.op = "Stop" THEN "range" ELSE "done"
  IN  IF st = 0
      THEN [c EXCEPT !.id = id, !.st = 0, !.seen = {}, !.pc = back,
                     !.res = IF c.op = "Stop" THEN c.res ELSE "ok"]
      ELSE [c EXCEPT !.id = id, !.st = st, !.seen = {}, !.pc = "close",
                     !.took = c.took \cup {st}]

\* Manager.Disable up to the end of its locked section
DisableBegin(id) ==
  /\ CanCall
  /\ id \in cfg.disable
  /\ call' = Append(call, DisableTake(NewCall("Disable"), id))
  /\ projects' = [i \in DOMAIN projects |-> IF i = id THEN 0 ELSE projects[i]]
  /\ UNCHANGED <<fs, srv, servers, listeners, pst, conn, trig, nev, crashed, cfg, disk, inj, mu, task>>

\* DisableClose as a Disable that ranges over the clients without closing
\* their channels
DisableCloseSkips(t, c) ==
  /\ Running
  /\ call[t].pc = "close"
  /\ c \in pst[call[t].st].clients \ call[t].seen
  /\ call' = [call EXCEPT ![t].seen = @ \cup {c}]
  /\ UNCHANGED <<fs, srv, servers, listeners, projects, pst, conn, trig, nev, crashed, cfg, disk, inj, mu, task>>

\* Disable: one iteration of for _, ch := range st.clients { close(ch) }.
\* Closing a closed channel panics; Disable runs outside any handler.
DisableClose(t, c) ==
  /\ Running
  /\ call[t].pc = "close"
  /\ c \in pst[call[t].st].clients \ call[t].seen
  /\ IF conn[c].closed
     THEN /\ crashed' = TRUE
          /\ call' = [call EXCEPT ![t].pc = "panicked"]
          /\ UNCHANGED conn
     ELSE /\ conn' = [conn EXCEPT ![c].closed = TRUE]
          /\ call' = [call EXCEPT ![t].seen = @ \cup {c}]
          /\ UNCHANGED crashed
  /\ UNCHANGED <<fs, srv, servers, listeners, projects, pst, trig, nev, cfg, disk, inj, mu, task>>

\* Disable after the range: st.debounce.Stop() when st.debounce is set,
\* then return st.watcher.Close()
DisableFinish(t) ==
  /\ Running
  /\ call[t].pc = "close"
  /\ pst[call[t].st].clients \subseteq call[t].seen
  /\ LET s == call[t].st
         pending == pst[s].timer = "pending"
     IN  pst' = [pst EXCEPT ![s].timer = IF pending THEN "stopped" ELSE @,
                            ![s].cancels = IF pending THEN @ + 1 ELSE @,
                            ![s].watcher = "closed"]
  /\ call' = [call EXCEPT ![t].pc = IF call[t].op = "Stop" THEN "range" ELSE "done",
                          ![t].res = IF call[t].op = "Stop" THEN @ ELSE "ok"]
  /\ UNCHANGED <<fs, srv, servers, listeners, projects, conn, trig, nev, crashed, cfg, disk, inj, mu, task>>

\* Manager.Stop between Lock and Unlock: srv and projects are copied,
\* m.srv becomes nil and m.projects a new empty map
StopBegin ==
  /\ CanCall
  /\ "Stop" \in cfg.ops
  /\ call' = Append(call, [NewCall("Stop") EXCEPT
                             !.pc = "range", !.srvl = srv,
                             !.todo = {i \in DOMAIN projects : projects[i] # 0},
                             !.swapped = {projects[i] : i \in {j \in DOMAIN projects : projects[j] # 0}}])
  /\ srv' = 0
  /\ projects' = [i \in DOMAIN projects |-> 0]
  /\ UNCHANGED <<fs, servers, listeners, pst, conn, trig, nev, crashed, cfg, disk, inj, mu, task>>

\* Stop: one iteration of for projectID := range projects { _ = m.Disable(projectID) },
\* up to the end of Disable's locked section
StopDisable(t, id) ==
  /\ Running
  /\ call[t].op = "Stop" /\ call[t].pc = "range"
  /\ id \in call[t].todo
  /\ call' = [call EXCEPT ![t] = DisableTake([call[t] EXCEPT !.todo = @ \ {id}], id)]
  /\ projects' = [i \in DOMAIN projects |-> IF i = id THEN 0 ELSE projects[i]]
  /\ UNCHANGED <<fs, srv, servers, listeners, pst, conn, trig, nev, crashed, cfg, disk, inj, mu, task>>

\* Stop after the range: nil when srv was nil, else srv.Shutdown(ctx), which
\* closes the listener and waits for the handlers until ctx expires (r: nil,
\* or the context's error when handlers are still running)
StopShutdown(t, r) ==
  /\ Running
  /\ call[t].op = "Stop" /\ call[t].pc = "range"
  /\ call[t].todo = {}
  /\ servers' = IF call[t].srvl = 0 THEN servers
                ELSE [servers EXCEPT ![call[t].srvl] = "shutdown"]
  /\ r \in {"ok"} \cup (IF call[t].srvl # 0 /\ \E c \in Conns : conn[c].pc \in Serving
                        THEN {"err"} ELSE {})
  /\ call' = [call EXCEPT ![t].pc = "done", ![t].res = r]
  /\ UNCHANGED <<fs, srv, listeners, projects, pst, conn, trig, nev, crashed, cfg, disk, inj, mu, task>>

----------------------------------------------------------------------------
(* handleEvents.  A connection record holds the request (method, project,  *)
(* flusher: whether the ResponseWriter is an http.Flusher), the locals st  *)
(* (first lookup) and reg (st2, the state the client was registered in),   *)
(* the status code written (200 for the stream), the frames written, the   *)
(* channel ch (len: buffered signals, closed) and why the loop ended.      *)
(* The client id is the connection: randomID(8) is taken to be unique.     *)
(* sent, dropped and early are history: the signals put into ch, those it *)
(* missed while full, and whether one was there when ready was written.    *)

Request(method, project, flusher) == [method |-> method, project |-> project, flusher |-> flusher]

NewConn(rq) ==
  [pc |-> "new", method |-> rq.method, project |-> rq.project, flusher |-> rq.flusher,
   st |-> 0, reg |-> 0, code |-> 0, frames |-> <<>>, len |-> 0, closed |-> FALSE,
   why |-> "", sent |-> 0, dropped |-> 0, early |-> FALSE]

\* handleEventsBegin as a handler that reads the project parameter before
\* it looks at the method
handleEventsBeginParamFirst(rq) ==
  LET c == NewConn(rq)
      st == Lookup(rq.project)
  IN  IF rq.project = "" THEN [c EXCEPT !.pc = "done", !.code = 400]
      ELSE IF rq.method = "OPTIONS" THEN [c EXCEPT !.pc = "done", !.code = 204]
      ELSE IF rq.method # "GET" THEN [c EXCEPT !.pc = "done", !.code = 405]
      ELSE IF st = 0 THEN [c EXCEPT !.pc = "done", !.code = 404]
      ELSE IF ~rq.flusher THEN [c EXCEPT !.pc = "done", !.code = 500, !.st = st]
      ELSE [c EXCEPT !.pc = "register", !.st = st]

\* handleEvents up to the flusher check: the method checks, the project
\* parameter, the first lookup under the lock, the http.Flusher assertion
handleEventsBegin(rq) ==
  LET c == NewConn(rq)
      st == Lookup(rq.project)
  IN  IF rq.method = "OPTIONS" THEN [c EXCEPT !.pc = "done", !.code = 204]
      ELSE IF rq.method # "GET" THEN [c EXCEPT !.pc = "done", !.code = 405]
      ELSE IF rq.project = "" THEN [c EXCEPT !.pc = "done", !.code = 400]
      ELSE IF st = 0 THEN [c EXCEPT !.pc = "done", !.code = 404]
      ELSE IF ~rq.flusher THEN [c EXCEPT !.pc = "done", !.code = 500, !.st = st]
      ELSE [c EXCEPT !.pc = "register", !.st = st]

\* a request arrives at a server that is listening
HandleBegin(rq) ==
  /\ Running
  /\ Len(conn) < cfg.conns /\ Acts < cfg.acts
  /\ rq \in cfg.reqs
  /\ \E j \in 1..Len(servers) : servers[j] = "serving"
  /\ conn' = Append(conn, handleEventsBegin(rq))
  /\ UNCHANGED <<fs, srv, servers, listeners, projects, pst, trig, call, nev, crashed, cfg, disk, inj, mu, task>>

\* the trigger goroutines that are inside their range over the client map of
\* state s
Ranging(s) == {k \in Trigs : trig[k].pc = "range" /\ trig[k].cur = s}

\* handleEvents: the second lookup and st2.clients[clientID] = ch, under the
\* lock.  A trigger ranges over the map without the lock: the insert is then
\* a data race, which the runtime may stop with the fatal error "concurrent
\* map iteration and map write", and an entry inserted during a range may or
\* may not be visited by it (skip: the ranges that will not visit it).
HandleRegister(c) ==
  /\ Running
  /\ conn[c].pc = "register"
  /\ LET st2 == Lookup(conn[c].project)
     IN  IF st2 = 0
         THEN /\ conn' = [conn EXCEPT ![c].pc = "done", ![c].code = 404]
              /\ UNCHANGED <<pst, trig, crashed>>
         ELSE \E fatal \in {FALSE, Ranging(st2) # {}} : \E skip \in SUBSET Ranging(st2) :
                IF fatal
                THEN crashed' = TRUE /\ UNCHANGED <<conn, pst, trig>>
                ELSE /\ conn' = [conn EXCEPT ![c].pc = "ready", ![c].code = 200, ![c].reg = st2]
                     /\ pst' = [pst EXCEPT ![st2].clients = @ \cup {c}]
                     /\ trig' = [k \in Trigs |->
                                  IF k \in skip THEN [trig[k] EXCEPT !.seen = @ \cup {c}]
                                  ELSE trig[k]]
                     /\ UNCHANGED crashed
  /\ UNCHANGED <<fs, srv, servers, listeners, projects, call, nev, cfg, disk, inj, mu, task>>

\* HandleReady as a handler that enters the loop without the ready frame
HandleReadyUnwritten(c) ==
  /\ Running
  /\ conn[c].pc = "ready"
  /\ conn' = [conn EXCEPT ![c].pc = "loop", ![c].early = conn[c].len > 0]
  /\ UNCHANGED <<fs, srv, servers, listeners, projects, pst, trig, call, nev, crashed, cfg, disk, inj, mu, task>>

\* handleEvents: fmt.Fprintf(w, "data: ready\n\n"); flusher.Flush()
HandleReady(c) ==
  /\ Running
  /\ conn[c].pc = "ready"
  /\ conn' = [conn EXCEPT ![c].pc = "loop", ![c].frames = Append(@, "ready"),
                          ![c].early = conn[c].len > 0]
  /\ UNCHANGED <<fs, srv, servers, listeners, projects, pst, trig, call, nev, crashed, cfg, disk, inj, mu, task>>

\* the select of the loop takes a signal from ch and writes "data: reload"
HandleReload(c) ==
  /\ Running
  /\ conn[c].pc = "loop"
  /\ conn[c].len > 0
  /\ conn' = [conn EXCEPT ![c].len = @ - 1, ![c].frames = Append(@, "reload")]
  /\ UNCHANGED <<fs, srv, servers, listeners, projects, pst, trig, call, nev, crashed, cfg, disk, inj, mu, task>>

\* the loop returns and the deferred function runs its locked part:
\* if cur := m.projects[projectID]; cur != nil { delete(cur.clients, clientID) }
\* The delete races with a trigger that ranges over cur.clients (fatal error
\* or not); a range whose remaining entries are gone has ended.
handleEventsReturn(c, why) ==
  /\ Running
  /\ conn[c].pc = "loop"
  /\ LET cur == Lookup(conn[c].project)
         left == IF cur = 0 THEN {} ELSE pst[cur].clients \ {c}
         ended(t) == t.pc = "range" /\ t.cur = cur /\ left \subseteq t.seen
     IN  \E fatal \in {FALSE, Ranging(cur) # {}} :
           IF fatal
           THEN crashed' = TRUE /\ UNCHANGED <<conn, pst, trig>>
           ELSE /\ pst' = IF cur = 0 THEN pst ELSE [pst EXCEPT ![cur].clients = left]
                /\ conn' = [conn EXCEPT ![c].pc = "close", ![c].why = why]
                /\ trig' = SelectSeq(trig, LAMBDA t : ~ended(t))
                /\ UNCHANGED crashed
  /\ UNCHANGED <<fs, srv, servers, listeners, projects, call, nev, cfg, disk, inj, mu, task>>

\* the select of the loop finds ch closed and drained (ok is false)
HandleChanClosed(c) ==
  /\ conn[c].closed /\ conn[c].len = 0
  /\ handleEventsReturn(c, "closed")

\* the select of the loop finds r.Context().Done() closed: the client is gone
HandleCancel(c) ==
  handleEventsReturn(c, "cancel")

\* the deferred function after Unlock: close(ch).  Closing a closed channel
\* panics; net/http recovers the panic of a handler and drops the connection.
HandleClose(c) ==
  /\ Running
  /\ conn[c].pc = "close"
  /\ conn' = [conn EXCEPT ![c].pc = IF conn[c].closed THEN "panicked" ELSE "done",
                          ![c].closed = TRUE]
  /\ UNCHANGED <<fs, srv, servers, listeners, projects, pst, trig, call, nev, crashed, cfg, disk, inj, mu, task>>

----------------------------------------------------------------------------
(* watchLoop, the debounce timer and the trigger *)

Event(name, op) == [Name |-> name, Op |-> op]

\* the events the watcher of state s can deliver: something happened to an
\* entry n of a watched directory d
Deliverable(s) ==
  {Event(d \o <<n>>, op) : d \in pst[s].watches, n \in cfg.names, op \in cfg.opsets}

\* the select of watchLoop receives ev from st.watcher.Events.  mkdir: the
\* event is the creation of a directory (it then exists for os.Stat).
\* cfg.spaced: the environment changes a file only when no timer is pending
\* and no broadcast is under way.
\* cfg.below: the directories a created directory comes with (a tree that
\* is moved or unpacked into place), as paths relative to it.
WatchReceive(s, ev, mkdir) ==
  /\ Running
  /\ nev < cfg.events /\ Acts < cfg.acts
  /\ pst[s].loop = "select"
  /\ pst[s].watcher = "open"
  /\ cfg.spaced => pst[s].timer # "pending" /\ trig = <<>>
  /\ ev \in Deliverable(s)
  /\ mkdir \in cfg.mkdirs
  /\ mkdir => "Create" \in ev.Op /\ ev.Name \notin fs
  /\ fs' = IF mkdir THEN fs \cup {ev.Name} \cup {ev.Name \o r : r \in cfg.below} ELSE fs
  /\ nev' = nev + 1
  /\ pst' = [pst EXCEPT ![s].loop = "event", ![s].ev = ev, ![s].got = @ \cup {ev.Name}]
  /\ UNCHANGED <<srv, servers, listeners, projects, conn, trig, call, crashed, cfg, disk, inj, mu, task>>

\* debounced as a re-arm that leaves a pending timer its old deadline
debouncedKeepsDeadline(st) ==
  [st EXCEPT !.timer = "pending", !.age = 0,
             !.rem = IF st.timer = "pending" THEN @ ELSE QuietWindowMs,
             !.bursts = IF st.timer = "pending" THEN @ ELSE @ + 1]

\* debounced(): stop the pending timer, st.debounce = time.AfterFunc(250ms, trigger)
debounced(st) ==
  [st EXCEPT !.timer = "pending", !.rem = QuietWindowMs, !.age = 0,
             !.bursts = IF st.timer = "pending" THEN @ ELSE @ + 1]

\* watchLoopEvent as a loop that does not ask isIgnoredPath
watchLoopEventUnfiltered(st, dirs) ==
  LET ev == st.ev
      walked == IF "Create" \in ev.Op /\ ev.Name \in dirs /\ st.watcher = "open"
                THEN addWatchRecursive(ev.Name, dirs) ELSE {}
      st1 == [st EXCEPT !.watches = @ \cup walked, !.loop = "select", !.ev = NoEvent]
  IN  IF ev.Op \cap Significant # {} THEN debounced(st1) ELSE st1

\* watchLoopEvent as a loop that adds no watch for a created directory
watchLoopEventNoWalk(st, dirs) ==
  LET ev == st.ev
      st1 == [st EXCEPT !.loop = "select", !.ev = NoEvent]
  IN  IF isIgnoredPath(ev.Name) THEN st1
      ELSE IF ev.Op \cap Significant # {} THEN debounced(st1)
      ELSE st1

\* watchLoop on the event it received: a created directory is walked (w.Add
\* fails on a closed watcher), an ignored path is dropped, a significant
\* operation calls debounced()
watchLoopEvent(st, dirs) ==
  LET ev == st.ev
      walked == IF "Create" \in ev.Op /\ ev.Name \in dirs /\ st.watcher = "open"
                THEN addWatchRecursive(ev.Name, dirs) ELSE {}
      st1 == [st EXCEPT !.watches = @ \cup walked, !.loop = "select", !.ev = NoEvent]
  IN  IF isIgnoredPath(ev.Name) THEN st1
      ELSE IF ev.Op \cap Significant # {} THEN debounced(st1)
      ELSE st1

WatchEvent(s) ==
  /\ Running
  /\ pst[s].loop = "event"
  /\ pst' = [pst EXCEPT ![s] = watchLoopEvent(pst[s], fs)]
  /\ UNCHANGED <<fs, srv, servers, listeners, projects, conn, trig, call, nev, crashed, cfg, disk, inj, mu, task>>

\* the select of watchLoop finds st.watcher.Events closed: return
WatchExit(s) ==
  /\ Running
  /\ pst[s].loop = "select"
  /\ pst[s].watcher = "closed"
  /\ pst' = [pst EXCEPT ![s].loop = "exited"]
  /\ UNCHANGED <<fs, srv, servers, listeners, projects, conn, trig, call, nev, crashed, cfg, disk, inj, mu, task>>

\* time passes: cfg.tick milliseconds
Tick ==
  /\ Running
  /\ \E s \in States : pst[s].timer = "pending" /\ pst[s].rem > 0
  /\ pst' = [s \in States |->
               IF pst[s].timer # "pending" THEN pst[s]
               ELSE [pst[s] EXCEPT !.rem = IF @ > cfg.tick THEN @ - cfg.tick ELSE 0,
                                   !.age = IF @ + cfg.tick < QuietWindowMs THEN @ + cfg.tick
                                           ELSE QuietWindowMs]]
  /\ UNCHANGED <<fs, srv, servers, listeners, projects, conn, trig, call, nev, crashed, cfg, disk, inj, mu, task>>

\* a trigger goroutine: the project id the closure holds, cur (its lookup)
\* and the clients its range has visited; from is the state whose timer fired
\* and start the clients cur held at the lookup (history).
\* trig holds the goroutines that run; one that returns leaves it.
Remove(seq, k) == SubSeq(seq, 1, k - 1) \o SubSeq(seq, k + 1, Len(seq))

NewTrig(id, s) ==
  [pc |-> "lookup", id |-> id, cur |-> 0, seen |-> {}, from |-> s, start |-> {}]

\* the timer of state s expires: the runtime starts trigger in a goroutine
TimerFire(s) ==
  /\ Running
  /\ Len(trig) < cfg.trigs
  /\ pst[s].timer = "pending" /\ pst[s].rem = 0
  /\ pst' = [pst EXCEPT ![s].timer = "fired", ![s].fires = @ + 1,
                        ![s].firedAt = @ \cup {pst[s].age}]
  /\ trig' = Append(trig, NewTrig(pst[s].id, s))
  /\ UNCHANGED <<fs, srv, servers, listeners, projects, conn, call, nev, crashed, cfg, disk, inj, mu, task>>

\* trigger: cur := m.projects[projectID] under the lock; return when nil,
\* and when cur.clients is empty there is nothing to range over
TriggerLookup(k) ==
  /\ Running
  /\ trig[k].pc = "lookup"
  /\ LET cur == Lookup(trig[k].id)
     IN  trig' = IF cur = 0 \/ pst[cur].clients = {} THEN Remove(trig, k)
                 ELSE [trig EXCEPT ![k].cur = cur, ![k].pc = "range",
                                        ![k].start = pst[cur].clients]
  /\ UNCHANGED <<fs, srv, servers, listeners, projects, pst, conn, call, nev, crashed, cfg, disk, inj, mu, task>>

\* trySend as a send that does not look whether the buffer has room
trySendAlways(c) ==
  [c EXCEPT !.len = @ + 1, !.sent = @ + 1]

\* select { case ch <- struct{}{}: default: } on a channel record: a full
\* channel is left alone (dropped counts the signals it missed)
trySend(c) ==
  IF c.len < ChanCap THEN [c EXCEPT !.len = @ + 1, !.sent = @ + 1]
  ELSE [c EXCEPT !.dropped = @ + 1]

\* trigger: one iteration of for _, ch := range cur.clients, and the end of
\* the range after the last one.  A send on a closed channel panics, in the
\* timer's goroutine.
TriggerSend(k, c) ==
  /\ Running
  /\ trig[k].pc = "range"
  /\ c \in pst[trig[k].cur].clients \ trig[k].seen
  /\ IF conn[c].closed
     THEN /\ crashed' = TRUE
          /\ trig' = [trig EXCEPT ![k].pc = "panicked"]
          /\ UNCHANGED conn
     ELSE /\ conn' = [conn EXCEPT ![c] = trySend(conn[c])]
          /\ trig' = IF pst[trig[k].cur].clients \subseteq trig[k].seen \cup {c}
                     THEN Remove(trig, k)
                     ELSE [trig EXCEPT ![k].seen = @ \cup {c}]
          /\ UNCHANGED crashed
  /\ UNCHANGED <<fs, srv, servers, listeners, projects, pst, call, nev, cfg, disk, inj, mu, task>>

----------------------------------------------------------------------------
(* Specifications *)

----------------------------------------------------------------------------
(* TryInjectScript and injectIntoHTML.  The content of a file is a         *)
(* sequence of fragments: the pieces of text the code searches for, a      *)
(* newline, and "t" for any other text.                                    *)

marker == "GoLocal LiveReload"

\* ClientScript(p.ID): the script element, one fragment (it holds none of
\* the texts the code searches for)
script == "<script>"

\* strings.ToLower on a content
LowerAll(src) == [i \in 1..Len(src) |-> Lower(src[i])]

\* strings.Contains(s, frag) for one fragment
Has(s, frag) == \E i \in 1..Len(s) : s[i] = frag

\* strings.LastIndex(s, frag): the position of the last frag, 0 (Go: -1)
\* when there is none
LastIndex(s, frag) ==
  IF Has(s, frag) THEN CHOOSE i \in 1..Len(s) : s[i] = frag /\ \A j \in (i + 1)..Len(s) : s[j] # frag
  ELSE 0

\* strings.TrimSpace
RECURSIVE TrimSpace(_)
TrimSpace(s) ==
  IF s = <<>> THEN s
  ELSE IF s[1] = "\n" THEN TrimSpace(SubSeq(s, 2, Len(s)))
  ELSE IF s[Len(s)] = "\n" THEN TrimSpace(SubSeq(s, 1, Len(s) - 1))
  ELSE s

\* filepath.Ext of the entry files of the model
Ext(filename) ==
  CASE filename = "index.php" -> ".php"
    [] filename = "INDEX.PHP" -> ".PHP"
    [] OTHER -> ".html"

\* strings.EqualFold
EqualFold(a, b) == Lower(a) = Lower(b)

\* fmt.Sprintf("\n<!-- %s -->\n%s\n", marker, script)
injectBlock == <<"\n", "<!-- ", marker, " -->", "\n", script, "\n">>

\* fmt.Sprintf("\n\n/* %s */\n?>\n", marker)
phpMarker == <<"\n", "\n", "/* ", marker, " */", "\n", "?>", "\n">>

\* injectIntoHTML as a function that appends the bare script to every PHP
\* file, whether or not it ends inside a PHP block
injectIntoHTMLNoClose(filename, src) ==
  LET lower == LowerAll(src)
      idx == LastIndex(lower, "</body>")
  IN  IF idx # 0
      THEN [out |-> SubSeq(src, 1, idx - 1) \o injectBlock \o SubSeq(src, idx, Len(src)),
            ok |-> TRUE]
      ELSE IF Has(lower, "<html") \/ Has(lower, "<!doctype") \/ Has(lower, "<body")
      THEN [out |-> src \o injectBlock, ok |-> TRUE]
      ELSE IF EqualFold(Ext(filename), ".php")
      THEN [out |-> src \o <<"\n", script, "\n">>, ok |-> TRUE]
      ELSE [out |-> src, ok |-> FALSE]

\* injectIntoHTML(filename, src, script, marker): the new content and ok
injectIntoHTML(filename, src) ==
  LET lower == LowerAll(src)
      idx == LastIndex(lower, "</body>")
      trimmed == TrimSpace(src)
      lastClose == LastIndex(trimmed, "?>")
      lastOpen == LastIndex(trimmed, "<?")
      endsInPHPMode == lastOpen > lastClose
  IN  IF idx # 0
      THEN [out |-> SubSeq(src, 1, idx - 1) \o injectBlock \o SubSeq(src, idx, Len(src)),
            ok |-> TRUE]
      ELSE IF Has(lower, "<html") \/ Has(lower, "<!doctype") \/ Has(lower, "<body")
      THEN [out |-> src \o injectBlock, ok |-> TRUE]
      ELSE IF EqualFold(Ext(filename), ".php")
      THEN IF endsInPHPMode
           THEN [out |-> src \o phpMarker \o <<script, "\n">>, ok |-> TRUE]
           ELSE [out |-> src \o <<"\n", script, "\n">>, ok |-> TRUE]
      ELSE [out |-> src, ok |-> FALSE]

\* the files: name and content of the entry file, and the sibling file
\* name.tmp (hasTmp: whether it exists)
File(name, content) == [name |-> name, target |-> content, tmp |-> <<>>, hasTmp |-> FALSE]
NoFile == File("", <<>>)

\* a TryInjectScript call: data (what os.ReadFile gave), updated, err
\* (whether it returned an error); before is the content it found and wrote
\* whether it replaced the file (history)
NewInject == [pc |-> "read", data |-> <<>>, updated |-> <<>>, err |-> FALSE,
              before |-> <<>>, wrote |-> FALSE]

Injects == 1..Len(inj)

\* TryInjectScript is called; the calls of the program follow one another
InjectCall ==
  /\ Len(inj) < MaxRuns
  /\ \A k \in Injects : inj[k].pc = "done"
  /\ inj' = Append(inj, [NewInject EXCEPT !.before = disk.target])
  /\ UNCHANGED <<fs, srv, servers, listeners, projects, pst, conn, trig, call, nev, crashed, cfg, disk, mu, task>>

\* TryInjectScript on the candidate that exists: os.ReadFile, the test for
\* the marker (return nil), injectIntoHTML (continue when not ok: no other
\* candidate exists, return nil)
TryRead(k) ==
  /\ inj[k].pc = "read"
  /\ LET data == disk.target
         r == injectIntoHTML(disk.name, data)
     IN  inj' = IF Has(data, marker) \/ ~r.ok
                THEN [inj EXCEPT ![k].pc = "done", ![k].data = data]
                ELSE [inj EXCEPT ![k].pc = "write", ![k].data = data, ![k].updated = r.out]
  /\ UNCHANGED <<fs, srv, servers, listeners, projects, pst, conn, trig, call, nev, crashed, cfg, disk, mu, task>>

\* TryWrite as a write of the updated content into the entry file itself
TryWriteInPlace(k, fail, part) ==
  /\ inj[k].pc = "write"
  /\ part \in 0..Len(inj[k].updated)
  /\ IF fail
     THEN /\ inj' = [inj EXCEPT ![k].pc = "done", ![k].err = TRUE]
          /\ disk' = IF part = Len(inj[k].updated) THEN disk
                     ELSE [disk EXCEPT !.target = SubSeq(inj[k].updated, 1, part)]
     ELSE /\ part = Len(inj[k].updated)
          /\ inj' = [inj EXCEPT ![k].pc = "rename"]
          /\ disk' = [disk EXCEPT !.hasTmp = TRUE, !.tmp = inj[k].updated,
                                  !.target = inj[k].updated]
  /\ UNCHANGED <<fs, srv, servers, listeners, projects, pst, conn, trig, call, nev, crashed, cfg, mu, task>>

\* os.WriteFile(f + ".tmp", updated, 0644): it creates or truncates the
\* file and writes; when it fails the error is returned and the file, if it
\* was made, holds a part of the content
TryWrite(k, fail, part) ==
  /\ inj[k].pc = "write"
  /\ part \in 0..Len(inj[k].updated)
  /\ IF fail
     THEN /\ inj' = [inj EXCEPT ![k].pc = "done", ![k].err = TRUE]
          /\ disk' = IF part = Len(inj[k].updated) THEN disk
                     ELSE [disk EXCEPT !.hasTmp = TRUE, !.tmp = SubSeq(inj[k].updated, 1, part)]
     ELSE /\ part = Len(inj[k].updated)
          /\ inj' = [inj EXCEPT ![k].pc = "rename"]
          /\ disk' = [disk EXCEPT !.hasTmp = TRUE, !.tmp = inj[k].updated]
  /\ UNCHANGED <<fs, srv, servers, listeners, projects, pst, conn, trig, call, nev, crashed, cfg, mu, task>>

\* return os.Rename(tmp, f): the entry file becomes the .tmp file in one
\* step, or the rename fails and changes nothing
TryRename(k, fail) ==
  /\ inj[k].pc = "rename"
  /\ IF fail
     THEN /\ inj' = [inj EXCEPT ![k].pc = "done", ![k].err = TRUE]
          /\ UNCHANGED disk
     ELSE /\ inj' = [inj EXCEPT ![k].pc = "done", ![k].wrote = TRUE]
          /\ disk' = [disk EXCEPT !.target = disk.tmp, !.tmp = <<>>, !.hasTmp = FALSE]
  /\ UNCHANGED <<fs, srv, servers, listeners, projects, pst, conn, trig, call, nev, crashed, cfg, mu, task>>

----------------------------------------------------------------------------
(* The manager lock.  Every function that uses m.mu is written down as the  *)
(* statements of each of its control-flow paths, each statement by its kind *)
(* alone: "Lock" and "Unlock" of m.mu, "local" for statements that cannot   *)
(* block (map and field accesses, allocations, go statements, close(ch), a  *)
(* select with a default case, Timer.Stop), "block" for statements that can *)
(* (writes to the ResponseWriter, the select of the connection loop,        *)
(* fsnotify.NewWatcher, the directory walk, watcher.Close, srv.Shutdown).   *)

\* m.mu.Lock(); ...; m.mu.Unlock() around statements that cannot block
LockSection == <<"Lock", "local", "Unlock">>

\* Start: the lock is released by the deferred Unlock on both returns; the
\* body makes the mux and the server and starts a goroutine
StartCode == {LockSection}

\* Disable: the locked lookup and delete; return for a nil st, else the
\* range of close(ch), debounce.Stop() and watcher.Close()
DisableCode == {LockSection, LockSection \o <<"local", "local", "block">>}

\* StopCode as a Stop that calls Disable before it has released the lock
StopCodeHoldsLock ==
  {<<"Lock", "local">> \o d \o <<"Unlock">> \o sh :
     d \in DisableCode \cup {<<>>}, sh \in {<<>>, <<"block">>}}

\* Stop: the locked swap, then m.Disable for the ids of the copy (none or
\* one), then return nil or srv.Shutdown(ctx)
StopCode ==
  {LockSection \o d \o sh : d \in DisableCode \cup {<<>>}, sh \in {<<>>, <<"block">>}}

\* Enable: return for a nil project; m.Start(); the locked check for a
\* tracked id; NewWatcher (may fail); the empty path (watcher.Close); the
\* walk (on error watcher.Close); the locked store and go m.watchLoop
EnableCode ==
  LET pre == {st \o LockSection : st \in StartCode}
  IN  {<<>>} \cup pre
      \cup {c \o <<"block">> : c \in pre}
      \cup {c \o <<"block", "local", "block">> : c \in pre}
      \cup {c \o <<"block", "local", "block", "block">> : c \in pre}
      \cup {c \o <<"block", "local", "block">> \o LockSection \o <<"local">> : c \in pre}

\* handleEvents: an answer before any lookup (204, 405, 400); the first
\* locked lookup and 404 or 500; the second locked lookup and 404 after the
\* Unlock; or the registration, the ready frame, the loop (select, and
\* perhaps a reload frame and select again), and the deferred function with
\* its locked removal and close(ch)
handleEventsCode ==
  LET loops == {<<"block">>, <<"block", "block", "block">>}
  IN  {<<"block">>, LockSection \o <<"block">>,
       LockSection \o <<"local">> \o LockSection \o <<"block">>}
      \cup {LockSection \o <<"local">> \o LockSection \o <<"block">> \o l
              \o LockSection \o <<"local">> : l \in loops}

\* trigger: the locked lookup; return for nil, else the range of
\* non-blocking sends
triggerCode == {LockSection, LockSection \o <<"local">>}

LockOps == {"Start", "Stop", "Enable", "Disable", "handleEvents", "trigger"}

Code(op) ==
  CASE op = "Start" -> StartCode
    [] op = "Stop" -> StopCode
    [] op = "Enable" -> EnableCode
    [] op = "Disable" -> DisableCode
    [] op = "handleEvents" -> handleEventsCode
    [] op = "trigger" -> triggerCode

Tasks == 1..Len(task)

\* the statement task k is at, "end" when it has returned
At(k) == IF task[k].pc > Len(task[k].code) THEN "end" ELSE task[k].code[task[k].pc]

\* a goroutine starts to run op along one of its paths
TaskBegin(op, code) ==
  /\ Len(task) < cfg.calls
  /\ code \in Code(op)
  /\ task' = Append(task, [op |-> op, code |-> code, pc |-> 1])
  /\ UNCHANGED <<fs, srv, servers, listeners, projects, pst, conn, trig, call, nev, crashed, cfg, disk, inj, mu>>

\* m.mu.Lock(): waits while the mutex is held, by whomever (sync.Mutex is
\* not reentrant)
TaskLock(k) ==
  /\ At(k) = "Lock"
  /\ mu = 0
  /\ mu' = k
  /\ task' = [task EXCEPT ![k].pc = @ + 1]
  /\ UNCHANGED <<fs, srv, servers, listeners, projects, pst, conn, trig, call, nev, crashed, cfg, disk, inj>>

\* m.mu.Unlock()
TaskUnlock(k) ==
  /\ At(k) = "Unlock"
  /\ mu' = 0
  /\ task' = [task EXCEPT ![k].pc = @ + 1]
  /\ UNCHANGED <<fs, srv, servers, listeners, projects, pst, conn, trig, call, nev, crashed, cfg, disk, inj>>

\* any other statement runs (a blocking one when what it waits for is there)
TaskStep(k) ==
  /\ At(k) \in {"local", "block"}
  /\ task' = [task EXCEPT ![k].pc = @ + 1]
  /\ UNCHANGED <<fs, srv, servers, listeners, projects, pst, conn, trig, call, nev, crashed, cfg, disk, inj, mu>>

\* NewManager(0): no server, an empty project map
InitManager(c, dirs) ==
  /\ fs = dirs
  /\ srv = 0
  /\ servers = <<>>
  /\ listeners = <<>>
  /\ projects = [i \in ProjectIDs |-> 0]
  /\ pst = <<>>
  /\ conn = <<>>
  /\ trig = <<>>
  /\ call = <<>>
  /\ nev = 0
  /\ crashed = FALSE
  /\ cfg = c
  /\ mu = 0
  /\ task = <<>>

\* a project without an entry file, and no TryInjectScript call
InitWith(c, dirs) ==
  /\ InitManager(c, dirs)
  /\ disk = NoFile
  /\ inj = <<>>

Api ==
  \/ Start
  \/ \E i \in 1..Len(listeners) : ListenAndServe(i)
  \/ \E p \in cfg.enable : EnableBegin(p)
  \/ \E t \in Calls : \E fail \in BOOLEAN : EnableCheck(t, fail)
  \/ \E t \in Calls : EnableRegister(t)
  \/ \E id \in cfg.disable : DisableBegin(id)
  \/ \E t \in Calls : \E c \in Conns : DisableClose(t, c)
  \/ \E t \in Calls : DisableFinish(t)
  \/ StopBegin
  \/ \E t \in Calls : \E id \in ProjectIDs : StopDisable(t, id)
  \/ \E t \in Calls : \E r \in {"ok", "err"} : StopShutdown(t, r)

Http ==
  \/ \E rq \in cfg.reqs : HandleBegin(rq)
  \/ \E c \in Conns : HandleRegister(c)
  \/ \E c \in Conns : HandleReady(c)
  \/ \E c \in Conns : HandleReload(c)
  \/ \E c \in Conns : HandleChanClosed(c)
  \/ \E c \in Conns : HandleCancel(c)
  \/ \E c \in Conns : HandleClose(c)

Watch ==
  \/ \E s \in States : \E ev \in Deliverable(s) : \E mkdir \in BOOLEAN : WatchReceive(s, ev, mkdir)
  \/ \E s \in States : WatchEvent(s)
  \/ \E s \in States : WatchExit(s)
  \/ Tick
  \/ \E s \in States : TimerFire(s)
  \/ \E k \in Trigs : TriggerLookup(k)
  \/ \E k \in Trigs : \E c \in Conns : TriggerSend(k, c)

\* SpecHttp: every kind of request against a project that is enabled and
\* disabled; no filesystem events, so no signal is ever sent
HttpCalls == 2
HttpConns == 2

HttpCfg ==
  [calls |-> HttpCalls, conns |-> HttpConns, events |-> 0, trigs |-> 0,
   acts |-> HttpCalls + HttpConns, tick |-> TickMs, ops |-> {},
   enable |-> {Project("a", <<"a">>)},
   disable |-> {"a"},
   reqs |-> {Request(m, p, f) : m \in {"GET", "OPTIONS", "POST"}, p \in {"", "a", "zz"}, f \in BOOLEAN},
   names |-> {}, opsets |-> {}, mkdirs |-> {},
   newWatcherFails |-> {FALSE}, spaced |-> FALSE, below |-> {}]

InitHttp == InitWith(HttpCfg, {<<"a">>})

NextHttp ==
  \/ \E i \in 1..Len(listeners) : ListenAndServe(i)
  \/ \E p \in cfg.enable : EnableBegin(p)
  \/ \E t \in Calls : \E fail \in BOOLEAN : EnableCheck(t, fail)
  \/ \E t \in Calls : EnableRegister(t)
  \/ \E id \in cfg.disable : DisableBegin(id)
  \/ \E t \in Calls : \E c \in Conns : DisableClose(t, c)
  \/ \E t \in Calls : DisableFinish(t)
  \/ \E rq \in cfg.reqs : HandleBegin(rq)
  \/ \E c \in Conns : HandleRegister(c)
  \/ \E c \in Conns : HandleReady(c)
  \/ \E c \in Conns : HandleChanClosed(c)
  \/ \E c \in Conns : HandleCancel(c)
  \/ \E c \in Conns : HandleClose(c)

SpecHttp == InitHttp /\ [][NextHttp]_vars

\* SpecDebounce: one project, one client, events that arrive at any moment
\* of a clock that advances by half a quiet window
DebounceEvents == 3
DebounceTickMs == 125

DebounceCfg ==
  [calls |-> 1, conns |-> 1, events |-> DebounceEvents, trigs |-> 1,
   acts |-> DebounceEvents + 2, tick |-> DebounceTickMs, ops |-> {},
   enable |-> {Project("a", <<"a">>)},
   disable |-> {},
   reqs |-> {Request("GET", "a", TRUE)},
   names |-> {"f"}, opsets |-> {{"Write"}}, mkdirs |-> {FALSE},
   newWatcherFails |-> {FALSE}, spaced |-> FALSE, below |-> {}]

InitDebounce == InitWith(DebounceCfg, {<<"a">>})

NextDebounce ==
  \/ \E i \in 1..Len(listeners) : ListenAndServe(i)
  \/ \E p \in cfg.enable : EnableBegin(p)
  \/ \E t \in Calls : \E fail \in BOOLEAN : EnableCheck(t, fail)
  \/ \E t \in Calls : EnableRegister(t)
  \/ \E rq \in cfg.reqs : HandleBegin(rq)
  \/ \E c \in Conns : HandleRegister(c)
  \/ \E c \in Conns : HandleReady(c)
  \/ \E c \in Conns : HandleReload(c)
  \/ \E c \in Conns : HandleCancel(c)
  \/ \E c \in Conns : HandleClose(c)
  \/ \E s \in States : \E ev \in Deliverable(s) : \E mkdir \in BOOLEAN : WatchReceive(s, ev, mkdir)
  \/ \E s \in States : WatchEvent(s)
  \/ Tick
  \/ \E s \in States : TimerFire(s)
  \/ \E k \in Trigs : TriggerLookup(k)
  \/ \E k \in Trigs : \E c \in Conns : TriggerSend(k, c)

SpecDebounce == InitDebounce /\ [][NextDebounce]_vars

\* SpecBroadcast: one project, two clients that stay connected, and events
\* enough to fill a channel; the events are spaced (each comes after the
\* broadcast of the one before)
BroadcastConns == 2
BroadcastEvents == 11

BroadcastCfg ==
  [calls |-> 1, conns |-> BroadcastConns, events |-> BroadcastEvents, trigs |-> 1,
   acts |-> BroadcastConns + BroadcastEvents + 1, tick |-> TickMs, ops |-> {},
   enable |-> {Project("a", <<"a">>)},
   disable |-> {},
   reqs |-> {Request("GET", "a", TRUE)},
   names |-> {"f"}, opsets |-> {{"Write"}}, mkdirs |-> {FALSE},
   newWatcherFails |-> {FALSE}, spaced |-> TRUE, below |-> {}]

InitBroadcast == InitWith(BroadcastCfg, {<<"a">>})

NextBroadcast ==
  \/ \E i \in 1..Len(listeners) : ListenAndServe(i)
  \/ \E p \in cfg.enable : EnableBegin(p)
  \/ \E t \in Calls : \E fail \in BOOLEAN : EnableCheck(t, fail)
  \/ \E t \in Calls : EnableRegister(t)
  \/ \E rq \in cfg.reqs : HandleBegin(rq)
  \/ \E c \in Conns : HandleRegister(c)
  \/ \E c \in Conns : HandleReady(c)
  \/ \E c \in Conns : HandleReload(c)
  \/ \E s \in States : \E ev \in Deliverable(s) : \E mkdir \in BOOLEAN : WatchReceive(s, ev, mkdir)
  \/ \E s \in States : WatchEvent(s)
  \/ Tick
  \/ \E s \in States : TimerFire(s)
  \/ \E k \in Trigs : TriggerLookup(k)
  \/ \E k \in Trigs : \E c \in Conns : TriggerSend(k, c)

SpecBroadcast == InitBroadcast /\ [][NextBroadcast]_vars

\* SpecIgnore: a project tree with directories of ignored names, in upper
\* and mixed case too, and events in every watched directory
IgnoreEvents == 2

IgnoreCfg ==
  [calls |-> 1, conns |-> 1, events |-> IgnoreEvents, trigs |-> 1,
   acts |-> IgnoreEvents + 2, tick |-> TickMs, ops |-> {},
   enable |-> {Project("a", <<"a">>)},
   disable |-> {},
   reqs |-> {Request("GET", "a", TRUE)},
   names |-> {"f"}, opsets |-> {{"Write"}, {"Chmod"}}, mkdirs |-> {FALSE},
   newWatcherFails |-> {FALSE}, spaced |-> FALSE, below |-> {}]

InitIgnore ==
  InitWith(IgnoreCfg, {<<"a">>, <<"a", ".GIT">>, <<"a", ".GIT", "o">>,
                       <<"a", "s">>, <<"a", "s", "Vendor">>, <<"a", "s", "Vendor", "x">>})

NextIgnore ==
  \/ \E i \in 1..Len(listeners) : ListenAndServe(i)
  \/ \E p \in cfg.enable : EnableBegin(p)
  \/ \E t \in Calls : \E fail \in BOOLEAN : EnableCheck(t, fail)
  \/ \E t \in Calls : EnableRegister(t)
  \/ \E rq \in cfg.reqs : HandleBegin(rq)
  \/ \E c \in Conns : HandleRegister(c)
  \/ \E c \in Conns : HandleReady(c)
  \/ \E c \in Conns : HandleReload(c)
  \/ \E c \in Conns : HandleCancel(c)
  \/ \E c \in Conns : HandleClose(c)
  \/ \E s \in States : \E ev \in Deliverable(s) : \E mkdir \in BOOLEAN : WatchReceive(s, ev, mkdir)
  \/ \E s \in States : WatchEvent(s)
  \/ Tick
  \/ \E s \in States : TimerFire(s)
  \/ \E k \in Trigs : TriggerLookup(k)
  \/ \E k \in Trigs : \E c \in Conns : TriggerSend(k, c)

SpecIgnore == InitIgnore /\ [][NextIgnore]_vars

\* SpecNewDir: one project with one client; directories are created under
\* the root, alone or with a tree below them, and files are created in
\* them.  The scheduler runs every goroutine that can run, time passes and
\* an expired timer fires.
NewDirEvents == 3

NewDirCfg ==
  [calls |-> 1, conns |-> 1, events |-> NewDirEvents, trigs |-> 1,
   acts |-> NewDirEvents + 2, tick |-> TickMs, ops |-> {},
   enable |-> {Project("a", <<"a">>)},
   disable |-> {},
   reqs |-> {Request("GET", "a", TRUE)},
   names |-> {"n", "f"}, opsets |-> {{"Create"}}, mkdirs |-> {FALSE, TRUE},
   newWatcherFails |-> {FALSE}, spaced |-> FALSE,
   below |-> {<<"m">>, <<".GIT">>, <<".GIT", "o">>}]

InitNewDir == InitWith(NewDirCfg, {<<"a">>})

NewDirLoop == \E s \in States : WatchEvent(s)
NewDirTimer == \E s \in States : TimerFire(s)
NewDirLookup == \E k \in Trigs : TriggerLookup(k)
NewDirSend == \E k \in Trigs : \E c \in Conns : TriggerSend(k, c)

NextNewDir ==
  \/ \E i \in 1..Len(listeners) : ListenAndServe(i)
  \/ \E p \in cfg.enable : EnableBegin(p)
  \/ \E t \in Calls : \E fail \in BOOLEAN : EnableCheck(t, fail)
  \/ \E t \in Calls : EnableRegister(t)
  \/ \E rq \in cfg.reqs : HandleBegin(rq)
  \/ \E c \in Conns : HandleRegister(c)
  \/ \E c \in Conns : HandleReady(c)
  \/ \E c \in Conns : HandleReload(c)
  \/ \E s \in States : \E ev \in Deliverable(s) : \E mkdir \in BOOLEAN : WatchReceive(s, ev, mkdir)
  \/ NewDirLoop
  \/ Tick
  \/ NewDirTimer
  \/ NewDirLookup
  \/ NewDirSend

\* the loop goroutine of the only state holds an event it has not processed:
\* exactly when NewDirLoop can step
LoopHoldsEvent == Running /\ Len(pst) >= 1 /\ pst[1].loop = "event"

\* weak fairness of NewDirLoop is written with LoopHoldsEvent, the state
\* predicate that is its ENABLED (a step of the loop ends it)
SpecNewDir ==
  /\ InitNewDir /\ [][NextNewDir]_vars
  /\ []<>(~LoopHoldsEvent)
  /\ WF_vars(Tick) /\ WF_vars(NewDirTimer)
  /\ WF_vars(NewDirLookup) /\ WF_vars(NewDirSend)

\* SpecApi: Enable with a nil project, an empty path and two real projects,
\* a watcher that may fail to open, Disable of both ids, and one client
ApiCalls == 3
ApiConns == 1

ApiCfg ==
  [calls |-> ApiCalls, conns |-> ApiConns, events |-> 0, trigs |-> 0,
   acts |-> ApiCalls + ApiConns, tick |-> TickMs, ops |-> {},
   enable |-> {Nil, Project("a", <<>>), Project("a", <<"a">>), Project("b", <<"b">>)},
   disable |-> {"a", "b"},
   reqs |-> {Request("GET", "a", TRUE)},
   names |-> {}, opsets |-> {}, mkdirs |-> {},
   newWatcherFails |-> {FALSE, TRUE}, spaced |-> FALSE, below |-> {}]

InitApi == InitWith(ApiCfg, {<<"a">>, <<"b">>})

NextApi ==
  \/ \E i \in 1..Len(listeners) : ListenAndServe(i)
  \/ \E p \in cfg.enable : EnableBegin(p)
  \/ \E t \in Calls : \E fail \in BOOLEAN : EnableCheck(t, fail)
  \/ \E t \in Calls : EnableRegister(t)
  \/ \E id \in cfg.disable : DisableBegin(id)
  \/ \E t \in Calls : \E c \in Conns : DisableClose(t, c)
  \/ \E t \in Calls : DisableFinish(t)
  \/ \E rq \in cfg.reqs : HandleBegin(rq)
  \/ \E c \in Conns : HandleRegister(c)
  \/ \E c \in Conns : HandleReady(c)
  \/ \E c \in Conns : HandleChanClosed(c)
  \/ \E c \in Conns : HandleCancel(c)
  \/ \E c \in Conns : HandleClose(c)

SpecApi == InitApi /\ [][NextApi]_vars

\* SpecRoot: Enable with a root that exists, one that does not exist, and
\* one that lies below a directory with an ignored name; Disable, and one
\* client
RootCalls == 3
RootConns == 1

RootCfg ==
  [calls |-> RootCalls, conns |-> RootConns, events |-> 0, trigs |-> 0,
   acts |-> RootCalls + RootConns, tick |-> TickMs, ops |-> {},
   enable |-> {Project("a", <<"a">>), Project("a", <<"gone">>), Project("b", <<"vendor", "p">>)},
   disable |-> {"a", "b"},
   reqs |-> {Request("GET", "a", TRUE)},
   names |-> {}, opsets |-> {}, mkdirs |-> {},
   newWatcherFails |-> {FALSE}, spaced |-> FALSE, below |-> {}]

InitRoot == InitWith(RootCfg, {<<"a">>, <<"vendor">>, <<"vendor", "p">>})

SpecRoot == InitRoot /\ [][NextApi]_vars

\* SpecInject: an entry file of any content of up to MaxLen fragments,
\* named index.php, INDEX.PHP or index.html, and TryInjectScript called on
\* it MaxRuns times
Fragments == {"<?", "?>", "</BODY>", "<!DOCTYPE", "<html", "t", "\n", marker}

RECURSIVE Contents(_)
Contents(n) ==
  IF n = 0 THEN {<<>>}
  ELSE LET shorter == Contents(n - 1)
       IN  shorter \cup {Append(c, f) : c \in shorter, f \in Fragments}

EntryNames == {"index.php", "INDEX.PHP", "index.html"}

InjectCfg ==
  [calls |-> 0, conns |-> 0, events |-> 0, trigs |-> 0,
   acts |-> 0, tick |-> TickMs, ops |-> {},
   enable |-> {}, disable |-> {}, reqs |-> {},
   names |-> {}, opsets |-> {}, mkdirs |-> {},
   newWatcherFails |-> {FALSE}, spaced |-> FALSE, below |-> {}]

InitInject ==
  /\ InitManager(InjectCfg, {<<"a">>})
  /\ disk \in {File(n, c) : n \in EntryNames, c \in Contents(MaxLen)}
  /\ inj = <<>>

NextInject ==
  \/ InjectCall
  \/ \E k \in Injects : TryRead(k)
  \/ \E k \in Injects : \E fail \in BOOLEAN : \E part \in 0..Len(inj[k].updated) : TryWrite(k, fail, part)
  \/ \E k \in Injects : \E fail \in BOOLEAN : TryRename(k, fail)

SpecInject == InitInject /\ [][NextInject]_vars

\* SpecStop: one project with clients, then Disable or Stop.  The scheduler
\* runs every goroutine that can run: the steps of the API calls that have
\* begun, of the handlers and of the watch loops.  What the environment does
\* (a call begins, a request arrives, a client goes away) is not forced.
StopCalls == 3
StopConns == 2

StopCfg ==
  [calls |-> StopCalls, conns |-> StopConns, events |-> 0, trigs |-> 0,
   acts |-> StopCalls + StopConns, tick |-> TickMs, ops |-> {"Stop"},
   enable |-> {Project("a", <<"a">>)},
   disable |-> {"a"},
   reqs |-> {Request("GET", "a", TRUE)},
   names |-> {}, opsets |-> {}, mkdirs |-> {},
   newWatcherFails |-> {FALSE}, spaced |-> FALSE, below |-> {}]

InitStop == InitWith(StopCfg, {<<"a">>})

\* the steps of the goroutines that run
StopSteps ==
  \/ \E i \in 1..Len(listeners) : ListenAndServe(i)
  \/ \E t \in Calls : \E fail \in BOOLEAN : EnableCheck(t, fail)
  \/ \E t \in Calls : EnableRegister(t)
  \/ \E t \in Calls : \E c \in Conns : DisableClose(t, c)
  \/ \E t \in Calls : DisableFinish(t)
  \/ \E t \in Calls : \E id \in ProjectIDs : StopDisable(t, id)
  \/ \E t \in Calls : \E r \in {"ok", "err"} : StopShutdown(t, r)
  \/ \E c \in Conns : HandleRegister(c)
  \/ \E c \in Conns : HandleReady(c)
  \/ \E c \in Conns : HandleChanClosed(c)
  \/ \E c \in Conns : HandleClose(c)
  \/ \E s \in States : WatchExit(s)

NextStop ==
  \/ \E p \in cfg.enable : EnableBegin(p)
  \/ \E id \in cfg.disable : DisableBegin(id)
  \/ StopBegin
  \/ \E rq \in cfg.reqs : HandleBegin(rq)
  \/ \E c \in Conns : HandleCancel(c)
  \/ StopSteps

SpecStop == InitStop /\ [][NextStop]_vars /\ WF_vars(StopSteps)

\* SpecLock: LockTasks goroutines, each running one of the functions that
\* use m.mu along one of its paths, in every interleaving
LockTasks == 2

LockCfg ==
  [calls |-> LockTasks, conns |-> 0, events |-> 0, trigs |-> 0,
   acts |-> LockTasks, tick |-> TickMs, ops |-> {},
   enable |-> {}, disable |-> {}, reqs |-> {},
   names |-> {}, opsets |-> {}, mkdirs |-> {},
   newWatcherFails |-> {FALSE}, spaced |-> FALSE, below |-> {}]

InitLock == InitWith(LockCfg, {<<"a">>})

NextLock ==
  \/ \E op \in LockOps : \E code \in Code(op) : TaskBegin(op, code)
  \/ \E k \in Tasks : TaskLock(k)
  \/ \E k \in Tasks : TaskUnlock(k)
  \/ \E k \in Tasks : TaskStep(k)

SpecLock == InitLock /\ [][NextLock]_vars

\* Spec: the manager under concurrent API calls, requests and events
SpecCfg ==
  [calls |-> MaxCalls, conns |-> MaxConns, events |-> MaxEvents, trigs |-> MaxTrigs,
   acts |-> MaxActs, tick |-> TickMs, ops |-> {"Start", "Stop"},
   enable |-> {Project("a", <<"a">>)},
   disable |-> {"a"},
   reqs |-> {Request("GET", "a", TRUE)},
   names |-> {"f"}, opsets |-> {{"Write"}}, mkdirs |-> {FALSE},
   newWatcherFails |-> {FALSE}, spaced |-> FALSE, below |-> {}]

Init == InitWith(SpecCfg, {<<"a">>, <<"b">>})

Next == Api \/ Http \/ Watch

Spec == Init /\ [][Next]_vars

\* SpecStale: a project is enabled, removed by Disable or Stop and enabled
\* again, with one event and one client
StaleCalls == 3
StaleActs == 5

StaleCfg ==
  [calls |-> StaleCalls, conns |-> 1, events |-> 1, trigs |-> 1,
   acts |-> StaleActs, tick |-> TickMs, ops |-> {"Start", "Stop"},
   enable |-> {Project("a", <<"a">>)},
   disable |-> {"a"},
   reqs |-> {Request("GET", "a", TRUE)},
   names |-> {"f"}, opsets |-> {{"Write"}}, mkdirs |-> {FALSE},
   newWatcherFails |-> {FALSE}, spaced |-> FALSE, below |-> {}]

InitStale == InitWith(StaleCfg, {<<"a">>})

SpecStale == InitStale /\ [][Next]_vars

----------------------------------------------------------------------------
(* Claims checked under Spec *)

\* the Disable calls that took a state and have returned
Returned == {t \in Calls : call[t].op = "Disable" /\ call[t].pc = "done" /\ call[t].took # {}}

\* what a returned Disable(id) leaves of each state it took: the state is
\* not the one m.projects holds for id, the channel of every client
\* registered in it is closed, its watcher is closed
TornDown ==
  \A t \in Returned : \A s \in call[t].took :
    /\ projects[call[t].id] # s
    /\ \A c \in pst[s].clients : conn[c].closed
    /\ pst[s].watcher = "closed"

\* a GET for id that arrives after Disable(id) has returned, while id is
\* not enabled again, is answered 404 at once
NotFoundAfterDisable ==
  \A t \in Returned :
    (/\ projects[call[t].id] = 0
     /\ Len(conn') = Len(conn) + 1
     /\ conn'[Len(conn')].method = "GET"
     /\ conn'[Len(conn')].project = call[t].id)
    => conn'[Len(conn')].code = 404 /\ conn'[Len(conn')].pc = "done"

\* C1: after Disable(id) has returned for a tracked project, whatever the
\* handlers and the watch loop did meanwhile, the state it took is out of
\* m.projects, every client channel registered in that state is closed, its
\* watcher is closed, and a later GET /events?project=id is answered 404 as
\* long as id is not enabled again.
C1_DisableTearsDown == []TornDown /\ [][NotFoundAfterDisable]_vars

\* C1 witness: a Disable has returned for a state that had a client, whose
\* channel is closed, and a request that came later got 404
C1_Witness ==
  \E t \in Returned : \E s \in call[t].took :
    /\ \E c \in pst[s].clients : conn[c].closed
    /\ \E c \in Conns : conn[c].code = 404 /\ \A d \in pst[s].clients : d < c

\* the Stop calls that have returned
Stopped == {t \in Calls : call[t].op = "Stop" /\ call[t].pc = "done"}

\* C2: after Stop has returned, every project that was tracked when Stop
\* was called has had the teardown of Disable: its watcher is closed, the
\* channel of every client registered for it is closed and its debounce
\* timer is not pending.  (The code's Stop empties m.projects before it
\* calls Disable, so each Disable finds nothing to tear down.)
C2_StopTearsDown ==
  \A t \in Stopped : \A s \in call[t].swapped :
    /\ pst[s].watcher = "closed"
    /\ \A c \in pst[s].clients : conn[c].closed
    /\ pst[s].timer # "pending"

\* C5: an Enable(p) that finds p.ID tracked returns nil and leaves every
\* projectState (watcher, watches, client map, timer, watch loop) and the
\* project map as they were; it builds no state and opens no watcher.
C5_EnableIdempotent ==
  [][\A t \in Calls :
       (/\ call[t].op = "Enable" /\ call[t].pc = "check"
        /\ Lookup(call[t].p.ID) # 0
        /\ t \in DOMAIN call' /\ call'[t] # call[t])
       => /\ call'[t].pc = "done" /\ call'[t].res = "ok"
          /\ call'[t].st = 0 /\ call'[t].w = "none"
          /\ pst' = pst /\ projects' = projects]_vars

\* C5 witness: a second Enable of a tracked id has returned nil without
\* building a state, and the state of the first one is still the tracked one
C5_Witness ==
  \E t \in Calls : \E u \in Calls :
    /\ u < t
    /\ call[u].op = "Enable" /\ call[u].pc = "done" /\ call[u].st # 0
    /\ call[t].op = "Enable" /\ call[t].pc = "done" /\ call[t].res = "ok" /\ call[t].st = 0
    /\ call[t].p.ID = call[u].p.ID
    /\ projects[call[u].p.ID] = call[u].st
    /\ Len(pst) = 1

\* the frames a connection has written after k signals
StreamOf(k) == <<"ready">> \o [i \in 1..k |-> "reload"]

\* C7: an accepted connection writes "data: ready" first and once, and
\* after it one "data: reload" for every signal it has taken from its
\* channel (the signals sent to it less those still buffered); until the
\* ready frame nothing is written, whatever the channel already holds.
C7_ReadyFirst ==
  \A c \in Conns :
    /\ conn[c].pc = "ready" => conn[c].frames = <<>>
    /\ (conn[c].code = 200 /\ conn[c].pc # "ready")
         => conn[c].frames = StreamOf(conn[c].sent - conn[c].len)
    /\ conn[c].code # 200 => conn[c].frames = <<>>

\* C7 witness: a broadcast put a signal into the channel before the ready
\* frame was written, and the connection then wrote ready and a reload
C7_Witness ==
  \E c \in Conns : conn[c].early /\ conn[c].frames = <<"ready", "reload">>

\* C8: once an accepted handler has returned, its id is out of the client
\* map it was registered in and its channel is closed.  (The deferred
\* cleanup deletes from the state m.projects holds now, which is none, or
\* another one, once the project was disabled or the manager stopped.)
C8_HandlerCleansUp ==
  \A c \in Conns :
    (conn[c].pc = "done" /\ conn[c].reg # 0)
      => c \notin pst[conn[c].reg].clients /\ conn[c].closed

----------------------------------------------------------------------------
(* Claims checked under SpecHttp *)

\* the order of the checks as the claim gives it, for a request and whether
\* its project id is tracked: the status written, 0 when none is written yet
Ladder(method, project, flusher, tracked) ==
  CASE method = "OPTIONS" -> 204
    [] method # "OPTIONS" /\ method # "GET" -> 405
    [] method = "GET" /\ project = "" -> 400
    [] method = "GET" /\ project # "" /\ ~tracked -> 404
    [] method = "GET" /\ project # "" /\ tracked /\ ~flusher -> 500
    [] OTHER -> 0

\* the step that takes a request in answers by the ladder, on the project
\* map of that moment
AnsweredByLadder ==
  Len(conn') = Len(conn) + 1 =>
    LET c == conn'[Len(conn')]
        code == Ladder(c.method, c.project, c.flusher, Lookup(c.project) # 0)
    IN  /\ c.code = code
        /\ c.pc = IF code = 0 THEN "register" ELSE "done"

\* the step that registers opens the stream when the id is still tracked
\* and answers 404 when it is not
OpenedOrNotFound ==
  \A c \in Conns :
    (conn[c].pc = "register" /\ conn'[c].pc # "register") =>
      IF Lookup(conn[c].project) # 0
      THEN conn'[c].code = 200 /\ conn'[c].pc = "ready"
      ELSE conn'[c].code = 404 /\ conn'[c].pc = "done"

\* only a connection whose stream was opened is in a client map
OnlyStreamsRegistered ==
  \A c \in Conns : \A s \in States :
    c \in pst[s].clients => conn[c].code = 200 /\ conn[c].reg = s

\* C6: handleEvents decides in this order: OPTIONS gives 204 whatever the
\* query, another method than GET gives 405, GET without a project gives
\* 400, GET for an id that is not tracked gives 404, GET on a writer that
\* cannot flush gives 500, otherwise the stream is opened (404 when the id
\* went away before the registration); no other outcome than the stream
\* registers a client.
C6_StatusLadder ==
  /\ [][AnsweredByLadder /\ OpenedOrNotFound]_vars
  /\ []OnlyStreamsRegistered

\* C6 witness: an OPTIONS request without a project got 204, and a GET for
\* a tracked project on a writer that cannot flush got 500
C6_Witness ==
  \E c \in Conns : \E d \in Conns :
    /\ conn[c].method = "OPTIONS" /\ conn[c].project = "" /\ conn[c].code = 204
    /\ conn[d].method = "GET" /\ conn[d].st # 0 /\ ~conn[d].flusher /\ conn[d].code = 500

----------------------------------------------------------------------------
(* Claims checked under SpecDebounce *)

\* every burst (a debounced() that found no pending timer, and the
\* debounced() calls that re-armed its timer) has given one trigger, was
\* cancelled, or still has its timer pending
OneTriggerPerBurst ==
  \A s \in States :
    pst[s].fires + pst[s].cancels + (IF pst[s].timer = "pending" THEN 1 ELSE 0)
      = pst[s].bursts

\* every timer that fired did so a full quiet window after the last
\* debounced()
FiredAfterQuietWindow ==
  \A s \in States : pst[s].firedAt \subseteq {QuietWindowMs}

\* C3: a burst of qualifying events, each processed while the timer armed
\* by the one before is pending, gives exactly one trigger, and that
\* trigger fires only when a full quiet window has passed since the last
\* event of the burst.
C3_DebounceCoalesces == OneTriggerPerBurst /\ FiredAfterQuietWindow

\* C3 witness: three events made one burst, its timer fired once and the
\* one broadcast gave a client one signal
C3_Witness ==
  /\ nev = DebounceEvents
  /\ trig = <<>>
  /\ \E s \in States :
       /\ pst[s].bursts = 1 /\ pst[s].fires = 1 /\ pst[s].loop = "select"
       /\ \E c \in pst[s].clients : conn[c].sent = 1

----------------------------------------------------------------------------
(* Claims checked under SpecBroadcast *)

\* this step is a visit of a broadcast to client c
Visited(c) ==
  conn'[c].sent + conn'[c].dropped = conn[c].sent + conn[c].dropped + 1

\* a visit leaves a channel that holds 10 signals as it is and appends one
\* signal to any other, and no broadcast visits a client twice
OneSignalUnlessFull ==
  \A c \in Conns :
    Visited(c) =>
      /\ IF conn[c].len = ChanCap
         THEN conn'[c].len = ChanCap /\ conn'[c].sent = conn[c].sent
         ELSE conn'[c].len = conn[c].len + 1 /\ conn'[c].sent = conn[c].sent + 1
      /\ \A d \in Conns \ {c} : conn'[d] = conn[d]
      /\ \A k \in Trigs : trig[k].pc = "range" => c \notin trig[k].seen

\* when a broadcast ends it has visited every client that was registered
\* when it began
AllVisited ==
  \A k \in Trigs :
    (trig[k].pc = "range" /\ Len(trig') < Len(trig)) =>
      \A c \in trig[k].start : c \in trig[k].seen \/ Visited(c)

\* a broadcast inside its range can always take its next step, whatever the
\* channels hold, as long as the process runs
NeverBlocks ==
  \A k \in Trigs :
    (Running /\ trig[k].pc = "range") => \E c \in Conns : ENABLED TriggerSend(k, c)

\* C4: in one broadcast a client whose channel holds 10 unread signals is
\* skipped without blocking and its channel still holds 10; every other
\* registered client gets exactly one signal in that broadcast.
C4_BroadcastSkipsFull ==
  /\ []NeverBlocks
  /\ [][OneSignalUnlessFull /\ AllVisited]_vars

\* C4 witness: a broadcast has ended in which one client's channel held 10
\* signals and stayed so, and the other client got its eleventh signal
C4_Witness ==
  /\ trig = <<>>
  /\ \E c \in Conns : \E d \in Conns :
       /\ conn[c].len = ChanCap /\ conn[c].dropped = 1
       /\ conn[d].sent = ChanCap + 1 /\ conn[d].dropped = 0

----------------------------------------------------------------------------
(* Claims checked under SpecIgnore *)

\* the ignored directory names
IgnoredNames == {ignored[k][2] : k \in 1..Len(ignored)}

\* d is below root and d, or a directory between root and d, has an
\* ignored name
HasIgnoredName(d, root) ==
  \E i \in (Len(root) + 1)..Len(d) : Lower(d[i]) \in IgnoredNames

Under(d, root) == Len(d) >= Len(root) /\ SubSeq(d, 1, Len(root)) = root

\* C9: after the walk of Enable the watches are exactly the directories
\* under root that have no ignored name (in any case of letters) and are
\* not below a directory with one.  (The code's patterns are "/name/": the
\* path of a directory named .git does not end in "/", so it gets a watch.)
C9_IgnoredNotWatched ==
  \A t \in Calls :
    (call[t].op = "Enable" /\ call[t].st # 0 /\ nev = 0) =>
      pst[call[t].st].watches =
        {d \in fs : Under(d, call[t].p.Path) /\ ~HasIgnoredName(d, call[t].p.Path)}

\* the path lies inside a directory with an ignored name
InsideIgnored(path) ==
  \E i \in 1..(Len(path) - 1) : Lower(path[i]) \in IgnoredNames

\* the loop's step on an event whose path the policy matches leaves the
\* timer as it was
IgnoredEventArmsNothing ==
  \A s \in States :
    (pst[s].loop = "event" /\ pst'[s].loop # "event" /\ isIgnoredPath(pst[s].ev.Name)) =>
      /\ pst'[s].timer = pst[s].timer
      /\ pst'[s].rem = pst[s].rem
      /\ pst'[s].bursts = pst[s].bursts

\* while every event so far was inside an ignored directory no timer was
\* armed, no trigger ran and no client got a signal
NoBroadcastFromIgnored ==
  \A s \in States :
    (\A n \in pst[s].got : InsideIgnored(n)) =>
      /\ pst[s].timer = "nil" /\ pst[s].fires = 0
      /\ \A k \in Trigs : trig[k].from # s
      /\ \A c \in pst[s].clients : conn[c].sent = 0 /\ conn[c].dropped = 0

\* C10: an event whose path matches the ignore policy never arms or re-arms
\* the debounce timer, so a run whose changes all lie inside an ignored
\* directory gives no broadcast.
C10_IgnoredNeverArms ==
  /\ []NoBroadcastFromIgnored
  /\ [][IgnoredEventArmsNothing]_vars

\* C10 witness: the loop has processed two events, both below .GIT, a
\* client is registered, and no timer was armed
C10_Witness ==
  \E s \in States :
    /\ nev = IgnoreEvents /\ pst[s].loop = "select"
    /\ pst[s].got = {<<"a", ".GIT", "f">>}
    /\ pst[s].clients # {}
    /\ pst[s].timer = "nil"

----------------------------------------------------------------------------
(* Claims checked under SpecNewDir *)

\* the loop's step on the create event of a directory that no ignored name
\* touches, taken with the watcher open: afterwards the directory and every
\* directory below it that has no ignored name has a watch
NewDirectoryWatched ==
  \A s \in States :
    LET ev == pst[s].ev
    IN  (/\ pst[s].loop = "event" /\ pst'[s].loop # "event"
         /\ "Create" \in ev.Op /\ ev.Name \in fs
         /\ pst[s].watcher = "open"
         /\ ~isIgnoredPath(ev.Name)
         /\ Lower(ev.Name[Len(ev.Name)]) \notin IgnoredNames)
        => {d \in fs : Under(d, ev.Name) /\ ~HasIgnoredName(d, ev.Name)}
             \subseteq pst'[s].watches

\* the only state of SpecNewDir has received an event on an entry of a
\* directory that was created after Enable, and has not processed it yet
NewDirEventReceived ==
  /\ Len(pst) >= 1
  /\ pst[1].loop = "event"
  /\ Len(pst[1].ev.Name) >= 3
  /\ ~isIgnoredPath(pst[1].ev.Name)

\* the loop's step on such an event arms the timer with a full window
NewDirEventArms ==
  (NewDirEventReceived /\ pst'[1].loop # "event")
    => pst'[1].timer = "pending" /\ pst'[1].rem = QuietWindowMs

\* the timer of the only state has fired and its broadcast has ended
Broadcasted ==
  /\ Len(pst) >= 1
  /\ pst[1].timer = "fired" /\ pst[1].fires = pst[1].bursts
  /\ trig = <<>>

\* C11: the loop's step on the create event of a directory outside the
\* ignore policy adds a watch for it and for every non-ignored directory
\* below it; a later qualifying event on an entry of the new directory arms
\* the timer, and while the project stays enabled a broadcast follows.
C11_NewDirectoryCovered ==
  /\ [][NewDirectoryWatched /\ NewDirEventArms]_vars
  /\ (NewDirEventReceived ~> Broadcasted)

\* C11 witness: a directory came with a tree, its subdirectory m has a
\* watch, an event on a file in the new directory was received, and the
\* broadcast that followed gave the client a signal
C11_Witness ==
  /\ Broadcasted
  /\ <<"a", "n", "m">> \in pst[1].watches
  /\ <<"a", "n", "f">> \in pst[1].got
  /\ \E c \in pst[1].clients : conn[c].sent >= 1

----------------------------------------------------------------------------
(* Claims checked under SpecApi *)

\* C12: whatever the manager holds, an Enable that was given a nil project
\* or a project with an empty path has returned an error.  (The code looks
\* at the path only after the check for a tracked id: for a tracked id an
\* empty path returns nil.)
C12_EnableRejects ==
  \A t \in Calls :
    (call[t].op = "Enable" /\ call[t].pc = "done"
       /\ (call[t].p.nil \/ call[t].p.Path = <<>>))
    => call[t].res = "err"

\* call t is an Enable that returns an error in this step
EnableFails(t) ==
  /\ call'[t].op = "Enable" /\ call'[t].pc = "done" /\ call'[t].res = "err"
  /\ t \in Calls => call[t].pc # "done"

\* the step in which an Enable returns an error leaves the project map and
\* the project states as they are, and no watcher of the call is open
FailureLeavesNothing ==
  \A t \in 1..Len(call') :
    EnableFails(t) =>
      /\ projects' = projects
      /\ pst' = pst
      /\ call'[t].w # "open"

\* an id enters the project map only in the last step of an Enable that
\* returns nil
OnlySuccessRegisters ==
  \A id \in ProjectIDs :
    (projects'[id] # projects[id] /\ projects'[id] # 0) =>
      \E t \in Calls :
        /\ call[t].op = "Enable" /\ call[t].pc = "register" /\ call[t].p.ID = id
        /\ call'[t].pc = "done" /\ call'[t].res = "ok"

\* an Enable that returned an error built no state and started no loop
FailedBuiltNothing ==
  \A t \in Calls :
    (call[t].op = "Enable" /\ call[t].res = "err") => call[t].st = 0

\* C13: when Enable returns an error (nil project, empty path, watcher not
\* opened) the project map is as it was, no watch loop was started and the
\* watcher the call opened, if any, is closed.
C13_EnableFailureClean ==
  /\ []FailedBuiltNothing
  /\ [][FailureLeavesNothing /\ OnlySuccessRegisters]_vars

\* C13 witness: with project b tracked, one Enable failed on an empty path
\* and closed its watcher and another failed to open its watcher
C13_Witness ==
  /\ projects["b"] # 0
  /\ \E t \in Calls : \E u \in Calls :
       /\ call[t].op = "Enable" /\ call[t].res = "err" /\ call[t].w = "closed"
       /\ call[u].op = "Enable" /\ call[u].res = "err" /\ call[u].w = "none"
       /\ ~call[u].p.nil

\* a step of Disable(id), call t
DisableSteps(t) == call[t].op = "Disable" /\ call'[t] # call[t]

\* the step of a Disable for an id that is not tracked returns nil and
\* changes nothing else
UntrackedIsNoOp ==
  (/\ Len(call') = Len(call) + 1
   /\ call'[Len(call')].op = "Disable"
   /\ Lookup(call'[Len(call')].id) = 0)
  => /\ call'[Len(call')].pc = "done" /\ call'[Len(call')].res = "ok"
     /\ UNCHANGED <<projects, pst, conn, srv, servers, listeners>>

\* a Disable(id) closes only channels registered in, and the watcher of, a
\* state of project id
OnlyOwnProject ==
  \A t \in Calls :
    DisableSteps(t) =>
      /\ \A c \in Conns :
           (conn'[c].closed /\ ~conn[c].closed) => pst[conn[c].reg].id = call[t].id
      /\ \A s \in States :
           pst'[s] # pst[s] => pst[s].id = call[t].id

\* C14: Disable(id) for an id that is not tracked returns success and
\* leaves the project map, the listener and every project's watcher,
\* channels and timer as they are; no Disable(id) closes a channel or a
\* watcher of another project id.
C14_DisableFrame == [][UntrackedIsNoOp /\ OnlyOwnProject]_vars

\* C14 witness: Disable("b") has returned without taking anything while
\* project a is tracked with an open watcher and a client whose channel is
\* open
C14_Witness ==
  /\ \E t \in Calls :
       /\ call[t].op = "Disable" /\ call[t].id = "b" /\ call[t].pc = "done"
       /\ call[t].took = {}
  /\ projects["a"] # 0
  /\ pst[projects["a"]].watcher = "open"
  /\ \E c \in pst[projects["a"]].clients : ~conn[c].closed

----------------------------------------------------------------------------
(* Claims checked under Spec: the listener *)

\* the http.Servers the manager has made and not shut down
ActiveServers == {j \in 1..Len(servers) : servers[j] # "shutdown"}

\* C15: in every interleaving of Start, Enable and Stop at most one server
\* made by the manager is active (made and not yet shut down).  (The code's
\* Stop clears m.srv under the lock and shuts the server down later, so a
\* Start or Enable in between makes a second server.)
C15_OneListener == Cardinality(ActiveServers) <= 1

----------------------------------------------------------------------------
(* Claims checked under SpecInject *)

\* C16: when a run of TryInjectScript has replaced the entry file, its new
\* content holds the marker and the next run leaves the file as it found
\* it.  (The code's branch for a PHP file that does not end inside a PHP
\* block appends the script alone, without the marker.)
C16_InjectOnce ==
  \A k \in Injects :
    inj[k].wrote =>
      /\ Has(inj[k].updated, marker)
      /\ (k + 1) \in Injects => disk.target = inj[k + 1].before

\* the content has no closing body tag, in any case of letters
NoBodyEnd(src) == ~Has(LowerAll(src), "</body>")

\* the content holds a doctype, html or body marker
HtmlLooking(src) ==
  \E m \in {"<html", "<!doctype", "<body"} : Has(LowerAll(src), m)

\* the last PHP open tag comes after the last PHP close tag
EndsInPhp(src) == LastIndex(src, "<?") > LastIndex(src, "?>")

\* what injectIntoHTML appended to data
Added(k) == SubSeq(inj[k].updated, Len(inj[k].data) + 1, Len(inj[k].updated))

\* call k computed an injection that keeps data and appends to it
Appended(k) ==
  /\ inj[k].updated # <<>>
  /\ Len(inj[k].updated) > Len(inj[k].data)
  /\ SubSeq(inj[k].updated, 1, Len(inj[k].data)) = inj[k].data

\* a content without closing body tag and with a doctype, html or body
\* marker gets the block (marker comment, then script) at its end
HtmlFallback ==
  \A k \in Injects :
    (inj[k].updated # <<>> /\ NoBodyEnd(inj[k].data) /\ HtmlLooking(inj[k].data)) =>
      /\ Appended(k)
      /\ Added(k) = <<"\n", "<!-- ", marker, " -->", "\n", script, "\n">>

\* call k injected into a .php file without closing body tag or html
\* marker that ends inside a PHP block
PhpOpenCase(k) ==
  /\ inj[k].updated # <<>>
  /\ Lower(Ext(disk.name)) = ".php"
  /\ NoBodyEnd(inj[k].data) /\ ~HtmlLooking(inj[k].data)
  /\ EndsInPhp(inj[k].data)

\* C17 as stated: in the PHP fallback the input is followed by a PHP
\* closing tag, then the marker comment, then the script.
C17_FallbackAsStated ==
  /\ HtmlFallback
  /\ \A k \in Injects :
       PhpOpenCase(k) =>
         /\ Appended(k)
         /\ Has(Added(k), "?>") /\ Has(Added(k), marker) /\ Has(Added(k), script)
         /\ LastIndex(Added(k), "?>") < LastIndex(Added(k), marker)
         /\ LastIndex(Added(k), marker) < LastIndex(Added(k), script)

\* C17: for a content without closing body tag and with a doctype, html or
\* body marker the output is the input followed by the injected block; for
\* a .php file with none of these that ends inside a PHP block the output
\* is the input followed by the marker in a PHP comment, then the PHP
\* closing tag, then the script, in that order.
C17_FallbackBranches ==
  /\ HtmlFallback
  /\ \A k \in Injects :
       PhpOpenCase(k) =>
         /\ Appended(k)
         /\ Has(Added(k), "?>") /\ Has(Added(k), marker) /\ Has(Added(k), script)
         /\ Added(k)[LastIndex(Added(k), marker) - 1] = "/* "
         /\ Added(k)[LastIndex(Added(k), marker) + 1] = " */"
         /\ LastIndex(Added(k), marker) < LastIndex(Added(k), "?>")
         /\ LastIndex(Added(k), "?>") < LastIndex(Added(k), script)

\* C17 witness: index.php held an open PHP block and a run replaced it by
\* its content followed by comment, closing tag and script
C17_Witness ==
  \E k \in Injects :
    /\ PhpOpenCase(k) /\ inj[k].wrote
    /\ inj[k].data = <<"<?", "t">>
    /\ disk.target = inj[k].updated

\* the entry file holds its original content or the content a run
\* computed, whole
TargetWhole ==
  inj # <<>> =>
    disk.target \in {inj[1].before} \cup {inj[k].updated : k \in {j \in Injects : inj[j].updated # <<>>}}

\* a run that leaves its write step without reaching the rename has
\* returned an error and the entry file is as it was
WriteFailureReturned ==
  \A k \in Injects :
    (inj[k].pc = "write" /\ inj'[k].pc # "write" /\ inj'[k].pc # "rename") =>
      /\ inj'[k].pc = "done" /\ inj'[k].err
      /\ disk'.target = disk.target

\* the entry file changes only in a rename step, and becomes the whole
\* updated content of that run
OnlyRenameReplaces ==
  disk'.target # disk.target =>
    \E k \in Injects :
      /\ inj[k].pc = "rename" /\ inj'[k].pc = "done"
      /\ disk.hasTmp /\ disk.tmp = inj[k].updated
      /\ disk'.target = inj[k].updated

\* C18: TryInjectScript writes the updated content to <target>.tmp and
\* renames it over the target: at every step the target holds its whole
\* original content or the whole injected content, and when the write of
\* the .tmp file fails the error is returned and the target is unchanged.
C18_AtomicWrite ==
  /\ []TargetWhole
  /\ [][WriteFailureReturned /\ OnlyRenameReplaces]_vars

\* C18 witness: the write of the .tmp file failed half way: the run
\* returned the error, a part of the content is in the .tmp file and the
\* entry file is as it was
C18_Witness ==
  \E k \in Injects :
    /\ inj[k].pc = "done" /\ inj[k].err
    /\ disk.hasTmp /\ disk.tmp # inj[k].updated /\ disk.tmp # <<>>
    /\ disk.target = inj[k].before

----------------------------------------------------------------------------
(* Claims checked under Spec: channels *)

\* C19: no channel is closed twice: neither the close in the handler's
\* deferred cleanup nor the close in Disable's range meets a channel the
\* other has closed.  (In the code both close it: Disable closes every
\* channel of the state it took, the handler then sees the closed channel,
\* returns and closes it again.)
C19_NoDoubleClose ==
  /\ \A c \in Conns : conn[c].pc # "panicked"
  /\ \A t \in Calls : call[t].pc # "panicked"

\* C20: no trigger sends on a closed channel.  (In the code the trigger
\* ranges over the client map outside the lock, so Disable can close a
\* channel the range has not come to yet.)
C20_NoSendOnClosed ==
  \A k \in Trigs : trig[k].pc # "panicked"

----------------------------------------------------------------------------
(* Claims checked under Spec: the client map and the project states *)

\* a step inserts into or deletes from the client map of state s
MapWritten(s) == pst'[s].clients # pst[s].clients

\* the Disable calls that are inside their range over the client map of s
Closing(s) == {t \in Calls : call[t].pc = "close" /\ call[t].st = s}

\* C21: no step inserts into or deletes from the client map of a state while
\* a trigger or a Disable is inside its range over that map.  (In the code
\* the trigger ranges after it has released the lock, so a handler's
\* registration or deferred removal can fall into the range; the range of
\* Disable is over a state no handler can find any more.)
C21_NoMapRace ==
  [][\A s \in States : MapWritten(s) => Ranging(s) = {} /\ Closing(s) = {}]_vars

\* C27: whenever m.projects tracks a project, m.srv is set.  (In the code
\* Enable calls Start first and stores the state in a later locked section;
\* a Stop in between clears m.srv, and the store follows.)
C27_TrackedHasListener ==
  (\E id \in ProjectIDs : projects[id] # 0) => srv # 0

\* the states registered for id whose watcher is open, and those whose
\* watch loop runs (a state is registered when Enable has put it into
\* m.projects and started its loop)
OpenWatchers(id) ==
  {s \in States : pst[s].id = id /\ pst[s].loop # "none" /\ pst[s].watcher = "open"}

RunningLoops(id) ==
  {s \in States : pst[s].id = id /\ pst[s].loop \in {"select", "event"}}

\* C22: for every project id at most one registered state has an open
\* watcher and at most one watch loop runs.  (In the code two concurrent
\* Enable calls for one id both pass the check for a tracked id and both
\* register a state with its own watcher and loop; Stop closes no watcher,
\* so Enable, Stop, Enable leaves two as well.)
C22_OneWatcherPerId ==
  \A id \in ProjectIDs :
    Cardinality(OpenWatchers(id)) <= 1 /\ Cardinality(RunningLoops(id)) <= 1

----------------------------------------------------------------------------
(* Claims checked under Spec: the debounce timer and Disable *)

\* the watch loop of state s holds an event for which it will call
\* debounced(): it reads st.debounce, stops the old timer and stores a new one
LoopRearms(s) ==
  /\ pst[s].loop = "event"
  /\ ~isIgnoredPath(pst[s].ev.Name)
  /\ pst[s].ev.Op \cap Significant # {}

\* C23: while a Disable is between its locked section and its return, where
\* it reads st.debounce and stops the timer, the watch loop of the state it
\* took is not about to re-arm that timer: the two accesses of the field are
\* never both due with nothing to order them.  (In the code neither access
\* holds the lock and Disable does not wait for the loop.)
C23_NoTimerRace ==
  \A t \in Calls : call[t].pc = "close" => ~LoopRearms(call[t].st)

\* C24: once Disable(id) has returned, no timer of a state it took is
\* pending.  (In the code a watch loop that had received an event before
\* the watcher was closed calls debounced() after Disable has stopped the
\* timer, and that timer fires.)
C24_NoTimerAfterDisable ==
  \A t \in Returned : \A s \in call[t].took : pst[s].timer # "pending"

----------------------------------------------------------------------------
(* Claims checked under SpecStop *)

\* state s has been torn down: a Disable that took it, or a Stop whose copy
\* of m.projects held it, has returned
AfterDisable(s) == \E t \in Returned : s \in call[t].took
AfterStop(s) == \E t \in Stopped : s \in call[t].swapped

\* the watch loop of s has returned and so has every handler registered in s
Terminated(s) ==
  /\ s \in States
  /\ pst[s].loop = "exited"
  /\ \A c \in Conns : conn[c].reg = s => conn[c].pc \in {"done", "panicked"}

\* a watch loop that has returned stays so
NeverRestarted ==
  \A s \in States : pst[s].loop = "exited" => pst'[s].loop = "exited"

\* C25: under fair scheduling, once Disable or Stop has returned for a
\* tracked project, the watch loop of its state and every handler
\* registered in it terminate (or the process has ended), and a loop that
\* has terminated is not started again.  (In the code Stop empties
\* m.projects before it calls Disable, so it closes neither the watcher nor
\* the channels and nothing wakes the loops.)
C25_LoopsTerminate ==
  /\ \A s \in 1..StopCalls :
       (s \in States /\ (AfterDisable(s) \/ AfterStop(s))) ~> (crashed \/ Terminated(s))
  /\ [][NeverRestarted]_vars

----------------------------------------------------------------------------
(* Claims checked under SpecLock *)

\* a task at a Lock statement does not hold the lock already
NoReentry == \A k \in Tasks : At(k) = "Lock" => mu # k

\* the holder of the lock is at a statement that cannot block or at the
\* Unlock: it is not at a blocking statement, not at another Lock, and it
\* has not returned with the lock held; an Unlock is run by the holder
HolderRunsOn ==
  /\ mu # 0 => mu \in Tasks /\ At(mu) \in {"local", "Unlock"}
  /\ \A k \in Tasks : At(k) = "Unlock" => mu = k

\* when a task waits for the lock, its holder can run
NoLockDeadlock ==
  (\E k \in Tasks : At(k) = "Lock") => mu = 0 \/ At(mu) \in {"local", "Unlock"}

\* C26: no task is at a Lock of m.mu while it holds m.mu, the holder is
\* always at a statement that cannot block or at its Unlock, and whenever a
\* task waits for the lock the holder can go on: no interleaving of Start,
\* Stop, Enable, Disable, handleEvents and the trigger deadlocks on the lock.
C26_LockDiscipline == NoReentry /\ HolderRunsOn /\ NoLockDeadlock

\* C26 witness: a Stop is in the Disable it calls and holds the lock there,
\* while a handler waits for the lock in its deferred function
C26_Witness ==
  \E k, j \in Tasks :
    /\ task[k].op = "Stop" /\ mu = k /\ task[k].pc > 4
    /\ task[j].op = "handleEvents" /\ At(j) = "Lock" /\ task[j].pc > 8

----------------------------------------------------------------------------
(* Claims checked under SpecStale *)

\* state s has been removed from m.projects by a Disable or by a Stop
Removed(s) == \E t \in Calls : s \in call[t].took \cup call[t].swapped

\* a step puts a signal into the channel of a client while every trigger
\* that is inside its range comes from the timer of a removed state that is
\* not the one the client is registered in
StaleSend ==
  \E c \in Conns :
    /\ conn'[c].sent > conn[c].sent
    /\ \A k \in Trigs : trig[k].pc = "range" =>
          trig[k].from # conn[c].reg /\ Removed(trig[k].from)

\* a client has been sent no more signals than its state has had bursts
SignalPerBurst ==
  \A c \in Conns : conn[c].reg # 0 => conn[c].sent <= pst[conn[c].reg].bursts

\* C28: a trigger whose timer belongs to a state that Disable or Stop has
\* removed sends nothing to the clients of a later state of the same id,
\* and a client gets at most one signal for each burst of events of its
\* state.  (In the code the trigger looks the project up by its id when it
\* runs, so the timer of an old state broadcasts to whatever state the id
\* holds then.)
C28_NoStaleSignal == []SignalPerBurst /\ [][~StaleSend]_vars

----------------------------------------------------------------------------
(* Claims checked under SpecInject: PHP context *)

\* the script of the content out stands inside PHP code: the last PHP open
\* tag before it comes after the last PHP close tag before it
ScriptInPhp(out) ==
  LET before == SubSeq(out, 1, LastIndex(out, script) - 1)
  IN  LastIndex(before, "<?") > LastIndex(before, "?>")

\* C29: for a .php file whose content ends inside a PHP block, the script
\* of the injected content does not stand inside PHP code: a PHP closing
\* tag lies between the last open tag before the script and the script.
\* (In the code only the last branch looks at the PHP tags; the branches
\* for a closing body tag and for an html, doctype or body marker insert
\* the block wherever the tag is, or at the end, PHP block or not.)
C29_ScriptOutsidePhp ==
  \A k \in Injects :
    (/\ inj[k].updated # <<>>
     /\ EqualFold(Ext(disk.name), ".php")
     /\ EndsInPhp(inj[k].data))
    => ~ScriptInPhp(inj[k].updated)

----------------------------------------------------------------------------
(* Claims checked under SpecRoot *)

\* the Enable calls that returned nil after they registered a state
Registered == {t \in Calls : call[t].op = "Enable" /\ call[t].pc = "done"
                              /\ call[t].res = "ok" /\ call[t].st # 0}

\* C30: an Enable with a non-empty Path that has registered its state and
\* returned nil has a watch on at least one directory.  (In the code the
\* walk drops every error and skips an ignored root, and Enable does not
\* look at what was added.)
C30_SuccessHasWatch ==
  \A t \in Registered :
    call[t].p.Path # <<>> => pst[call[t].st].watches # {}

====
